---- MODULE Spec2Model ----
(***************************************************************************)
(* Model of the klusterlet manifest-work lifecycle of the                  *)
(* managedcluster-import-controller: ReconcileManifestWork.Reconcile, its  *)
(* staged deletion (deleteAddonsAndWorks / deleteManifestWorks) and the    *)
(* hub-side objects they read and write.                                   *)
(*                                                                         *)
(* The hub store is a set of ManifestWork objects keyed by                 *)
(* (namespace, name).  A delete of an object that carries a finalizer only *)
(* sets its deletion timestamp; the work agent removes it later.           *)
(***************************************************************************)
EXTENDS FiniteSets, Integers, Sequences, TLC

VARIABLES
    store,          \* set of ManifestWork objects on the hub
    cluster,        \* the ManagedCluster object of ClusterName
    addons,         \* ManagedClusterAddon objects of the cluster namespace
    secret,         \* the import secret of the cluster namespace
    last            \* observation of the latest Reconcile invocation

vars == <<store, cluster, addons, secret, last>>

----------------------------------------------------------------------------
(* Bounds *)

\* at most this many calls to the hub fail in one invocation
MaxFaults == 2

\* the largest number of documents of an import.yaml
MaxDocs == 3

\* the largest number of finalizers of a managed cluster
MaxFinalizers == 3

----------------------------------------------------------------------------
(* Names *)

ClusterName == "t1"

KlusterletSuffix == "klusterlet"
KlusterletCRDsSuffix == "crds"
HostedKlusterletManifestworkSuffix == "hosted-klusterlet"
HostedManagedKubeconfigManifestworkSuffix == "hosted-kubeconfig"

\* fmt.Sprintf("%s-%s", a, b)
Sprintf(a, b) == a \o "-" \o b

\* strings.HasPrefix
HasPrefix(s, p) == Len(s) >= Len(p) /\ SubSeq(s, 1, Len(p)) = p

\* strings.HasSuffix
HasSuffix(s, p) == Len(s) >= Len(p) /\ SubSeq(s, Len(s) - Len(p) + 1, Len(s)) = p

KlusterletName == Sprintf(ClusterName, KlusterletSuffix)
CRDsName == Sprintf(ClusterName, KlusterletCRDsSuffix)
AddonWorkName == "t1-klusterlet-addon-foo"
OtherWorkName == "foo-other"
PostponedWorkName == "zoo-postponed"

\* the manifest work names of the cluster namespace, in the order a list
\* of the namespace returns them
WorkNames == <<AddonWorkName, OtherWorkName, CRDsName, KlusterletName, PostponedWorkName>>

Range(s) == {s[i] : i \in 1..Len(s)}

ExternalWorkNames == Range(WorkNames) \ {CRDsName, KlusterletName}

----------------------------------------------------------------------------
(* The two selectors of deleteManifestWorks *)

\* the selector whose default case ignores the work as well
ignoreKlusterletAndAddons_DefaultTrue(clusterName, manifestWork) == TRUE

\* the selector without the case of the klusterlet-addon prefix
ignoreKlusterletAndAddons_NoAddonPrefix(clusterName, manifestWork) ==
    LET manifestWorkName == manifestWork.name IN
    \/ manifestWorkName = Sprintf(clusterName, KlusterletSuffix)
    \/ manifestWorkName = Sprintf(clusterName, KlusterletCRDsSuffix)
    \/ manifestWorkName = Sprintf(clusterName, HostedKlusterletManifestworkSuffix)
    \/ manifestWorkName = Sprintf(clusterName, HostedManagedKubeconfigManifestworkSuffix)
    \/ HasPrefix(manifestWorkName, "addon-") /\ HasSuffix(manifestWorkName, "-deploy")
    \/ HasPrefix(manifestWorkName, "addon-") /\ HasSuffix(manifestWorkName, "-pre-delete")

\* the selector without the case of the crds work
ignoreKlusterletAndAddons_NoCRDs(clusterName, manifestWork) ==
    LET manifestWorkName == manifestWork.name IN
    \/ manifestWorkName = Sprintf(clusterName, KlusterletSuffix)
    \/ manifestWorkName = Sprintf(clusterName, HostedKlusterletManifestworkSuffix)
    \/ manifestWorkName = Sprintf(clusterName, HostedManagedKubeconfigManifestworkSuffix)
    \/ HasPrefix(manifestWorkName, manifestWork.namespace \o "-klusterlet-addon")
    \/ HasPrefix(manifestWorkName, "addon-") /\ HasSuffix(manifestWorkName, "-deploy")
    \/ HasPrefix(manifestWorkName, "addon-") /\ HasSuffix(manifestWorkName, "-pre-delete")

\* the selector without the two cases of the hosted mode works
ignoreKlusterletAndAddons_NoHosted(clusterName, manifestWork) ==
    LET manifestWorkName == manifestWork.name IN
    \/ manifestWorkName = Sprintf(clusterName, KlusterletSuffix)
    \/ manifestWorkName = Sprintf(clusterName, KlusterletCRDsSuffix)
    \/ HasPrefix(manifestWorkName, manifestWork.namespace \o "-klusterlet-addon")
    \/ HasPrefix(manifestWorkName, "addon-") /\ HasSuffix(manifestWorkName, "-deploy")
    \/ HasPrefix(manifestWorkName, "addon-") /\ HasSuffix(manifestWorkName, "-pre-delete")

ignoreKlusterletAndAddons(clusterName, manifestWork) ==
    LET manifestWorkName == manifestWork.name IN
    \/ manifestWorkName = Sprintf(clusterName, KlusterletSuffix)
    \/ manifestWorkName = Sprintf(clusterName, KlusterletCRDsSuffix)
    \/ manifestWorkName = Sprintf(clusterName, HostedKlusterletManifestworkSuffix)
    \/ manifestWorkName = Sprintf(clusterName, HostedManagedKubeconfigManifestworkSuffix)
    \/ HasPrefix(manifestWorkName, manifestWork.namespace \o "-klusterlet-addon")
    \/ HasPrefix(manifestWorkName, "addon-") /\ HasSuffix(manifestWorkName, "-deploy")
    \/ HasPrefix(manifestWorkName, "addon-") /\ HasSuffix(manifestWorkName, "-pre-delete")

\* the pending-work selector that ignores the addon works as well
ignoreKlusterlet_AndAddons(clusterName, manifestWork) ==
    ignoreKlusterletAndAddons(clusterName, manifestWork)

ignoreKlusterlet(clusterName, manifestWork) ==
    \/ manifestWork.name = Sprintf(clusterName, KlusterletSuffix)
    \/ manifestWork.name = Sprintf(clusterName, KlusterletCRDsSuffix)

----------------------------------------------------------------------------
(* The hub store of ManifestWork objects *)

\* a ManifestWork as the API server holds it
ManifestWork(ns, name) ==
    [namespace |-> ns, name |-> name, finalizer |-> FALSE, deleting |-> FALSE,
     postpone |-> (name = PostponedWorkName),
     labels |-> {}, manifests |-> <<>>, deleteOption |-> "nil"]

\* the API server stores a new object; the work agent of a joined cluster
\* puts its finalizer on every work it sees
ApiCreate(st, w, joined) == st \cup {[w EXCEPT !.finalizer = joined]}

\* the list without the namespace option: works of any namespace
ListWorks_AllNamespaces(st, ns) ==
    LET present == SelectSeq(WorkNames, LAMBDA n : \E w \in st : w.name = n)
    IN  [i \in 1..Len(present) |-> CHOOSE w \in st : w.name = present[i]]

\* RuntimeClient.List(ctx, manifestWorks, {Namespace: ns})
ListWorks(st, ns) ==
    LET present == SelectSeq(WorkNames, LAMBDA n : \E w \in st : w.namespace = ns /\ w.name = n)
    IN  [i \in 1..Len(present) |->
            CHOOSE w \in st : w.namespace = ns /\ w.name = present[i]]

\* RuntimeClient.Get(ctx, {Namespace: ns, Name: name}): empty when NotFound
WorkIn(st, ns, name) == {w \in st : w.namespace = ns /\ w.name = name}

\* RuntimeClient.Delete: an object with a finalizer stays, marked deleting
ApiDelete(st, w) ==
    IF w.finalizer THEN (st \ {w}) \cup {[w EXCEPT !.deleting = TRUE]} ELSE st \ {w}

\* the fault of an invocation in which the delete of the named work fails
FailDelete(name) == "delete:" \o name

Op(op, name, res) == [op |-> op, name |-> name, res |-> res]

\* helpers.DeleteManifestWork: absent or already deleting is success
DeleteManifestWork(st, ns, name, in) ==
    LET found == WorkIn(st, ns, name) IN
    IF FailDelete(name) \in in THEN [store |-> st, err |-> TRUE, res |-> "error"]
    ELSE IF found = {} THEN [store |-> st, err |-> FALSE, res |-> "absent"]
    ELSE LET w == CHOOSE x \in found : TRUE IN
         IF w.deleting THEN [store |-> st, err |-> FALSE, res |-> "terminating"]
         ELSE [store |-> ApiDelete(st, w), err |-> FALSE, res |-> "deleted"]

\* helpers.ForceDeleteManifestWork: delete and strip the finalizers
ForceDeleteManifestWork(st, ns, name, in) ==
    LET found == WorkIn(st, ns, name) IN
    IF FailDelete(name) \in in THEN [store |-> st, err |-> TRUE, res |-> "error"]
    ELSE IF found = {} THEN [store |-> st, err |-> FALSE, res |-> "absent"]
    ELSE [store |-> st \ found, err |-> FALSE, res |-> "deleted"]

\* helpers.ForceDeleteAllManifestWorks: every work is tried, errors collected
ForceDeleteAllManifestWorks(st, works, in) ==
    LET step[i \in 0..Len(works)] ==
            IF i = 0 THEN [store |-> st, errs |-> <<>>, ops |-> <<>>]
            ELSE LET prev == step[i - 1]
                     d == ForceDeleteManifestWork(prev.store, works[i].namespace, works[i].name, in)
                 IN  [store |-> d.store,
                      errs |-> IF d.err THEN Append(prev.errs, FailDelete(works[i].name))
                               ELSE prev.errs,
                      ops |-> Append(prev.ops, Op("ForceDeleteManifestWork", works[i].name, d.res))]
    IN  step[Len(works)]

\* helpers.DeleteManifestWorkWithSelector over ignoreKlusterletAndAddons:
\* deletes the works the selector does not ignore, stops at the first error
DeleteManifestWorkWithSelector(st, cl, works, in) ==
    LET step[i \in 0..Len(works)] ==
            IF i = 0 THEN [store |-> st, errs |-> <<>>, ops |-> <<>>]
            ELSE LET prev == step[i - 1]
                     w == works[i]
                     d == DeleteManifestWork(prev.store, w.namespace, w.name, in)
                 IN  IF prev.errs # <<>> THEN prev
                     ELSE IF ignoreKlusterletAndAddons(cl.name, w) THEN prev
                     ELSE IF w.postpone /\ ~cl.pastPostpone THEN prev
                     ELSE [store |-> d.store,
                           errs |-> IF d.err THEN <<FailDelete(w.name)>> ELSE <<>>,
                           ops |-> Append(prev.ops, Op("DeleteManifestWork", w.name, d.res))]
    IN  step[Len(works)]

\* helpers.NoPendingManifestWorks over ignoreKlusterlet: lists the namespace
\* again and reports whether only ignored works are left
NoPendingManifestWorks(st, clusterName) ==
    \A w \in st : w.namespace = clusterName => ignoreKlusterlet(clusterName, w)

\* helpers.NoManagedClusterAddons
NoManagedClusterAddons(ad) == ad = "none"

\* helpers.IsClusterUnavailable
IsClusterUnavailable(cl) == cl.unavailable

----------------------------------------------------------------------------
(* Staged deletion *)

RequeueAfterSeconds == 10

Return(st, ops, decision, requeueAfter, errs) ==
    [store |-> st, ops |-> ops, decision |-> decision,
     requeueAfter |-> requeueAfter, errs |-> errs]

\* the stage that deletes the crds work along with the klusterlet work
deleteKlusterletWorks_Both(st, cl, ops, in) ==
    LET klusterletName == Sprintf(cl.name, KlusterletSuffix)
        crdsName == Sprintf(cl.name, KlusterletCRDsSuffix)
        opsGet == Append(ops, Op("Get", klusterletName,
                    IF "get" \in in THEN "error"
                    ELSE IF WorkIn(st, cl.name, klusterletName) = {} THEN "NotFound" ELSE "found"))
        klusterlet == DeleteManifestWork(st, cl.name, klusterletName, in)
        crds == ForceDeleteManifestWork(klusterlet.store, cl.name, crdsName, in)
    IN
    IF "get" \in in THEN Return(st, opsGet, "GetError", 0, <<"get">>)
    ELSE Return(crds.store,
                opsGet \o <<Op("DeleteManifestWork", klusterletName, klusterlet.res),
                            Op("ForceDeleteManifestWork", crdsName, crds.res)>>,
                IF WorkIn(st, cl.name, klusterletName) = {} THEN "DeleteDefinitionsBundle"
                ELSE "DeleteInstallBundle", 0,
                (IF klusterlet.err THEN <<FailDelete(klusterletName)>> ELSE <<>>)
                    \o (IF crds.err THEN <<FailDelete(crdsName)>> ELSE <<>>))

\* the stage that returns NotFound as an error and leaves the crds work
deleteKlusterletWorks_NotFoundIsError(st, cl, ops, in) ==
    LET klusterletName == Sprintf(cl.name, KlusterletSuffix)
        opsGet == Append(ops, Op("Get", klusterletName,
                    IF "get" \in in THEN "error"
                    ELSE IF WorkIn(st, cl.name, klusterletName) = {} THEN "NotFound" ELSE "found"))
        klusterlet == DeleteManifestWork(st, cl.name, klusterletName, in)
    IN
    IF "get" \in in THEN Return(st, opsGet, "GetError", 0, <<"get">>)
    ELSE IF WorkIn(st, cl.name, klusterletName) = {} THEN
        Return(st, opsGet, "GetError", 0, <<"NotFound">>)
    ELSE Return(klusterlet.store,
                Append(opsGet, Op("DeleteManifestWork", klusterletName, klusterlet.res)),
                "DeleteInstallBundle", 0,
                IF klusterlet.err THEN <<FailDelete(klusterletName)>> ELSE <<>>)

\* the stage that takes a klusterlet work that is being deleted for gone
deleteKlusterletWorks_TerminatingIsGone(st, cl, ops, in) ==
    LET klusterletName == Sprintf(cl.name, KlusterletSuffix)
        crdsName == Sprintf(cl.name, KlusterletCRDsSuffix)
        klusterletWork == {w \in WorkIn(st, cl.name, klusterletName) : ~w.deleting}
        opsGet == Append(ops, Op("Get", klusterletName,
                    IF "get" \in in THEN "error"
                    ELSE IF klusterletWork = {} THEN "NotFound" ELSE "found"))
        crds == ForceDeleteManifestWork(st, cl.name, crdsName, in)
        klusterlet == DeleteManifestWork(st, cl.name, klusterletName, in)
    IN
    IF "get" \in in THEN Return(st, opsGet, "GetError", 0, <<"get">>)
    ELSE IF klusterletWork = {} THEN
        Return(crds.store,
               Append(opsGet, Op("ForceDeleteManifestWork", crdsName, crds.res)),
               "DeleteDefinitionsBundle", 0,
               IF crds.err THEN <<FailDelete(crdsName)>> ELSE <<>>)
    ELSE
        Return(klusterlet.store,
               Append(opsGet, Op("DeleteManifestWork", klusterletName, klusterlet.res)),
               "DeleteInstallBundle", 0,
               IF klusterlet.err THEN <<FailDelete(klusterletName)>> ELSE <<>>)

\* deleteManifestWorks, from the read of the klusterlet work to the end:
\* delete the klusterlet work, or the crds work once the klusterlet work is gone
deleteKlusterletWorks(st, cl, ops, in) ==
    LET klusterletName == Sprintf(cl.name, KlusterletSuffix)
        crdsName == Sprintf(cl.name, KlusterletCRDsSuffix)
        klusterletWork == WorkIn(st, cl.name, klusterletName)
        opsGet == Append(ops, Op("Get", klusterletName,
                    IF "get" \in in THEN "error"
                    ELSE IF klusterletWork = {} THEN "NotFound" ELSE "found"))
        crds == ForceDeleteManifestWork(st, cl.name, crdsName, in)
        klusterlet == DeleteManifestWork(st, cl.name, klusterletName, in)
    IN
    IF "get" \in in THEN
        Return(st, opsGet, "GetError", 0, <<"get">>)
    ELSE IF klusterletWork = {} THEN
        Return(crds.store,
               Append(opsGet, Op("ForceDeleteManifestWork", crdsName, crds.res)),
               "DeleteDefinitionsBundle", 0,
               IF crds.err THEN <<FailDelete(crdsName)>> ELSE <<>>)
    ELSE
        Return(klusterlet.store,
               Append(opsGet, Op("DeleteManifestWork", klusterletName, klusterlet.res)),
               "DeleteInstallBundle", 0,
               IF klusterlet.err THEN <<FailDelete(klusterletName)>> ELSE <<>>)

\* the stage that does not return while addons are left
waitForAddonsAndWorks_NoGate(st, cl, ops, ad, in) ==
    LET opsAddons == Append(ops, Op("NoManagedClusterAddons", cl.name,
                    IF "noAddons" \in in THEN "error"
                    ELSE IF NoManagedClusterAddons(ad) THEN "true" ELSE "false"))
        noPendingManifestWorks == NoPendingManifestWorks(st, cl.name)
        opsPending == Append(opsAddons, Op("NoPendingManifestWorks", cl.name,
                    IF "listPending" \in in THEN "error"
                    ELSE IF noPendingManifestWorks THEN "true" ELSE "false"))
    IN
    IF "noAddons" \in in THEN
        Return(st, opsAddons, "NoAddonsError", 0, <<"noAddons">>)
    ELSE IF "listPending" \in in THEN
        Return(st, opsPending, "NoPendingError", 0, <<"listPending">>)
    ELSE IF ~noPendingManifestWorks THEN
        Return(st, opsPending, "WaitForOtherWork", 0, <<>>)
    ELSE deleteKlusterletWorks(st, cl, opsPending, in)

\* deleteManifestWorks, after the batch delete: wait for the addons, then for
\* the works of others, then go on to the klusterlet works
waitForAddonsAndWorks(st, cl, ops, ad, in) ==
    LET opsAddons == Append(ops, Op("NoManagedClusterAddons", cl.name,
                    IF "noAddons" \in in THEN "error"
                    ELSE IF NoManagedClusterAddons(ad) THEN "true" ELSE "false"))
        noPendingManifestWorks == NoPendingManifestWorks(st, cl.name)
        opsPending == Append(opsAddons, Op("NoPendingManifestWorks", cl.name,
                    IF "listPending" \in in THEN "error"
                    ELSE IF noPendingManifestWorks THEN "true" ELSE "false"))
    IN
    IF "noAddons" \in in THEN
        Return(st, opsAddons, "NoAddonsError", 0, <<"noAddons">>)
    ELSE IF ~NoManagedClusterAddons(ad) THEN
        Return(st, opsAddons, "WaitForAddons", RequeueAfterSeconds, <<>>)
    ELSE IF "listPending" \in in THEN
        Return(st, opsPending, "NoPendingError", 0, <<"listPending">>)
    ELSE IF ~noPendingManifestWorks THEN
        Return(st, opsPending, "WaitForOtherWork", 0, <<>>)
    ELSE deleteKlusterletWorks(st, cl, opsPending, in)

\* deleteManifestWorks that goes on after a failing delete of the batch
deleteManifestWorks_IgnoreBatchError(st, cl, works, ad, in) ==
    LET force == ForceDeleteAllManifestWorks(st, works, in)
        batch == DeleteManifestWorkWithSelector(st, cl, works, in)
    IN
    IF Len(works) = 0 THEN Return(st, <<>>, "Done", 0, <<>>)
    ELSE IF IsClusterUnavailable(cl) THEN
        Return(force.store, force.ops, "ForceDeleteAll", 0, force.errs)
    ELSE waitForAddonsAndWorks(batch.store, cl, batch.ops, ad, in)

\* deleteManifestWorks without the branch of the unavailable cluster
deleteManifestWorks_NoForce(st, cl, works, ad, in) ==
    LET batch == DeleteManifestWorkWithSelector(st, cl, works, in)
    IN
    IF Len(works) = 0 THEN Return(st, <<>>, "Done", 0, <<>>)
    ELSE IF batch.errs # <<>> THEN
        Return(batch.store, batch.ops, "BatchDeleteError", 0, batch.errs)
    ELSE waitForAddonsAndWorks(batch.store, cl, batch.ops, ad, in)

\* deleteManifestWorks that drops the error of the forced delete
deleteManifestWorks_DropForceErrors(st, cl, works, ad, in) ==
    LET force == ForceDeleteAllManifestWorks(st, works, in)
        batch == DeleteManifestWorkWithSelector(st, cl, works, in)
    IN
    IF Len(works) = 0 THEN Return(st, <<>>, "Done", 0, <<>>)
    ELSE IF IsClusterUnavailable(cl) THEN
        Return(force.store, force.ops, "ForceDeleteAll", 0, <<>>)
    ELSE IF batch.errs # <<>> THEN
        Return(batch.store, batch.ops, "BatchDeleteError", 0, batch.errs)
    ELSE waitForAddonsAndWorks(batch.store, cl, batch.ops, ad, in)

\* deleteManifestWorks without the return for an empty list of works
deleteManifestWorks_NoDone(st, cl, works, ad, in) ==
    LET force == ForceDeleteAllManifestWorks(st, works, in)
        batch == DeleteManifestWorkWithSelector(st, cl, works, in)
    IN
    IF IsClusterUnavailable(cl) THEN
        Return(force.store, force.ops, "ForceDeleteAll", 0, force.errs)
    ELSE IF batch.errs # <<>> THEN
        Return(batch.store, batch.ops, "BatchDeleteError", 0, batch.errs)
    ELSE waitForAddonsAndWorks(batch.store, cl, batch.ops, ad, in)

\* ReconcileManifestWork.deleteManifestWorks; decision names the return taken
deleteManifestWorks(st, cl, works, ad, in) ==
    LET force == ForceDeleteAllManifestWorks(st, works, in)
        batch == DeleteManifestWorkWithSelector(st, cl, works, in)
    IN
    IF Len(works) = 0 THEN Return(st, <<>>, "Done", 0, <<>>)
    ELSE IF IsClusterUnavailable(cl) THEN
        Return(force.store, force.ops, "ForceDeleteAll", 0, force.errs)
    ELSE IF batch.errs # <<>> THEN
        Return(batch.store, batch.ops, "BatchDeleteError", 0, batch.errs)
    ELSE waitForAddonsAndWorks(batch.store, cl, batch.ops, ad, in)

\* helpers.DeleteManagedClusterAddons: requests the removal of every addon
DeleteManagedClusterAddons(ad, in) ==
    IF "retire" \in in THEN [addons |-> ad, err |-> TRUE]
    ELSE [addons |-> IF ad = "present" THEN "deleting" ELSE ad, err |-> FALSE]

\* deleteAddonsAndWorks that returns at a failed addon removal request
deleteAddonsAndWorks_GatedOnRetire(st, cl, works, ad, in) ==
    LET retire == DeleteManagedClusterAddons(ad, in)
        result == IF retire.err THEN Return(st, <<>>, "none", 0, <<>>)
                  ELSE deleteManifestWorks(st, cl, works, retire.addons, in)
        retireOp == Op("DeleteManagedClusterAddons", cl.name,
                       IF retire.err THEN "error" ELSE "ok")
    IN  [store |-> result.store,
         addons |-> retire.addons,
         ops |-> <<retireOp>> \o result.ops,
         decision |-> result.decision,
         requeueAfter |-> result.requeueAfter,
         worksErrs |-> result.errs,
         errs |-> (IF retire.err THEN <<"retire">> ELSE <<>>) \o result.errs]

\* deleteAddonsAndWorks that returns the error of deleteManifestWorks only
deleteAddonsAndWorks_DropsRetireError(st, cl, works, ad, in) ==
    LET retire == DeleteManagedClusterAddons(ad, in)
        result == deleteManifestWorks(st, cl, works, retire.addons, in)
        retireOp == Op("DeleteManagedClusterAddons", cl.name,
                       IF retire.err THEN "error" ELSE "ok")
    IN  [store |-> result.store,
         addons |-> retire.addons,
         ops |-> <<retireOp>> \o result.ops,
         decision |-> result.decision,
         requeueAfter |-> result.requeueAfter,
         worksErrs |-> result.errs,
         errs |-> result.errs]

\* ReconcileManifestWork.deleteAddonsAndWorks
deleteAddonsAndWorks(st, cl, works, ad, in) ==
    LET retire == DeleteManagedClusterAddons(ad, in)
        result == deleteManifestWorks(st, cl, works, retire.addons, in)
        retireOp == Op("DeleteManagedClusterAddons", cl.name,
                       IF retire.err THEN "error" ELSE "ok")
    IN  [store |-> result.store,
         addons |-> retire.addons,
         ops |-> <<retireOp>> \o result.ops,
         decision |-> result.decision,
         requeueAfter |-> result.requeueAfter,
         worksErrs |-> result.errs,
         errs |-> (IF retire.err THEN <<"retire">> ELSE <<>>) \o result.errs]

----------------------------------------------------------------------------
(* Reconcile *)

KlusterletDeployModeDefault == "Default"

\* helpers.DetermineKlusterletMode
DetermineKlusterletMode(cl) == cl.mode

\* helpers.AssertManifestWorkFinalizer: the finalizer follows the work count
AssertManifestWorkFinalizer(cl, works) ==
    [cl EXCEPT !.finalizer = (works # 0)]

\* the API server drops a deleting object once its finalizers are gone
Persist(cl) ==
    IF cl.deletionTimestamp /\ ~cl.finalizer THEN [cl EXCEPT !.exists = FALSE] ELSE cl

\* the keys of the import secret and the label of the klusterlet works
ImportSecretCRDSV1YamlKey == "crdsv1.yaml"

ImportSecretCRDSV1beta1YamlKey == "crdsv1beta1.yaml"

ImportSecretImportYamlKey == "import.yaml"

KlusterletWorksLabel == "import.open-cluster-management.io/klusterlet-works"

\* the separator of the documents of a YAML stream
YamlSeparator == "\n---\n"

\* the first position at which sep occurs in s, 0 when it does not
IndexOf(s, sep) ==
    LET hits == {i \in 1..(Len(s) - Len(sep) + 1) : SubSeq(s, i, i + Len(sep) - 1) = sep}
    IN  IF hits = {} THEN 0 ELSE CHOOSE i \in hits : \A j \in hits : i <= j

\* helpers.SplitYamls: the pieces between the separators, in order
RECURSIVE SplitYamls(_)
SplitYamls(yamls) ==
    LET i == IndexOf(yamls, YamlSeparator) IN
    IF i = 0 THEN <<yamls>>
    ELSE <<SubSeq(yamls, 1, i - 1)>>
            \o SplitYamls(SubSeq(yamls, i + Len(YamlSeparator), Len(yamls)))

\* yaml.YAMLToJSON on the documents of one mapping entry "kind: <scalar>":
\* the JSON object of that entry, null for the empty document, an error
\* for anything else, such as a flow sequence that is not closed
YAMLToJSON(y) ==
    IF y = "" THEN [err |-> FALSE, json |-> "null"]
    ELSE IF HasPrefix(y, "kind: ") /\ Len(y) > 6
                /\ IndexOf(y, "\n") = 0 /\ IndexOf(y, "[") = 0
         THEN [err |-> FALSE, json |-> "{\"kind\":\"" \o SubSeq(y, 7, Len(y)) \o "\"}"]
    ELSE [err |-> TRUE, json |-> ""]

\* helpers.IsAPIExtensionV1Supported: apiextensions v1 comes with 1.16; a
\* version that does not parse is not taken to support it
IsAPIExtensionV1Supported(kubeVersion) == kubeVersion \notin {"", "v1.11.0", "v1.15.9"}

\* the value a builder ends in when the conversion of a document fails
Panic == [panic |-> TRUE]

\* createKlusterletCRDsManifestWork without the label of the klusterlet works
createKlusterletCRDsManifestWork_NoLabel(managedCluster, importSecret) ==
    LET crdsKey == IF managedCluster.kubernetes # ""
                        /\ ~IsAPIExtensionV1Supported(managedCluster.kubernetes)
                   THEN ImportSecretCRDSV1beta1YamlKey
                   ELSE ImportSecretCRDSV1YamlKey
        jsonData == YAMLToJSON(importSecret[crdsKey])
    IN
    IF jsonData.err THEN Panic
    ELSE [ManifestWork(managedCluster.name, Sprintf(managedCluster.name, KlusterletCRDsSuffix))
            EXCEPT !.manifests = <<jsonData.json>>]

\* createKlusterletCRDsManifestWork under the name of the klusterlet work
createKlusterletCRDsManifestWork_KlusterletName(managedCluster, importSecret) ==
    LET crdsKey == IF managedCluster.kubernetes # ""
                        /\ ~IsAPIExtensionV1Supported(managedCluster.kubernetes)
                   THEN ImportSecretCRDSV1beta1YamlKey
                   ELSE ImportSecretCRDSV1YamlKey
        jsonData == YAMLToJSON(importSecret[crdsKey])
    IN
    IF jsonData.err THEN Panic
    ELSE [ManifestWork(managedCluster.name, Sprintf(managedCluster.name, KlusterletSuffix))
            EXCEPT !.labels = {<<KlusterletWorksLabel, "true">>},
                   !.manifests = <<jsonData.json>>]

\* createKlusterletCRDsManifestWork that asks for the support of v1 even when
\* the cluster reports no version
createKlusterletCRDsManifestWork_NoVersionGuard(managedCluster, importSecret) ==
    LET crdsKey == IF ~IsAPIExtensionV1Supported(managedCluster.kubernetes)
                   THEN ImportSecretCRDSV1beta1YamlKey
                   ELSE ImportSecretCRDSV1YamlKey
        jsonData == YAMLToJSON(importSecret[crdsKey])
    IN
    IF jsonData.err THEN Panic
    ELSE [ManifestWork(managedCluster.name, Sprintf(managedCluster.name, KlusterletCRDsSuffix))
            EXCEPT !.labels = {<<KlusterletWorksLabel, "true">>},
                   !.manifests = <<jsonData.json>>]

\* createKlusterletCRDsManifestWork
createKlusterletCRDsManifestWork(managedCluster, importSecret) ==
    LET crdsKey == IF managedCluster.kubernetes # ""
                        /\ ~IsAPIExtensionV1Supported(managedCluster.kubernetes)
                   THEN ImportSecretCRDSV1beta1YamlKey
                   ELSE ImportSecretCRDSV1YamlKey
        jsonData == YAMLToJSON(importSecret[crdsKey])
    IN
    IF jsonData.err THEN Panic
    ELSE [ManifestWork(managedCluster.name, Sprintf(managedCluster.name, KlusterletCRDsSuffix))
            EXCEPT !.labels = {<<KlusterletWorksLabel, "true">>},
                   !.manifests = <<jsonData.json>>]

\* createKlusterletManifestWork without the delete option
createKlusterletManifestWork_NoDeleteOption(managedCluster, importSecret) ==
    LET yamls == SplitYamls(importSecret[ImportSecretImportYamlKey])
        converted == [i \in 1..Len(yamls) |-> YAMLToJSON(yamls[i])]
    IN
    IF \E i \in 1..Len(yamls) : converted[i].err THEN Panic
    ELSE [ManifestWork(managedCluster.name, Sprintf(managedCluster.name, KlusterletSuffix))
            EXCEPT !.labels = {<<KlusterletWorksLabel, "true">>},
                   !.manifests = [i \in 1..Len(yamls) |-> converted[i].json]]

\* createKlusterletManifestWork that puts the documents in front of the list
createKlusterletManifestWork_Prepend(managedCluster, importSecret) ==
    LET yamls == SplitYamls(importSecret[ImportSecretImportYamlKey])
        converted == [i \in 1..Len(yamls) |-> YAMLToJSON(yamls[Len(yamls) + 1 - i])]
    IN
    IF \E i \in 1..Len(yamls) : converted[i].err THEN Panic
    ELSE [ManifestWork(managedCluster.name, Sprintf(managedCluster.name, KlusterletSuffix))
            EXCEPT !.labels = {<<KlusterletWorksLabel, "true">>},
                   !.manifests = [i \in 1..Len(yamls) |-> converted[i].json],
                   !.deleteOption = "Orphan"]

\* createKlusterletManifestWork: the loop converts the documents in order
\* and ends in the panic at the first one that does not convert
createKlusterletManifestWork(managedCluster, importSecret) ==
    LET yamls == SplitYamls(importSecret[ImportSecretImportYamlKey])
        converted == [i \in 1..Len(yamls) |-> YAMLToJSON(yamls[i])]
    IN
    IF \E i \in 1..Len(yamls) : converted[i].err THEN Panic
    ELSE [ManifestWork(managedCluster.name, Sprintf(managedCluster.name, KlusterletSuffix))
            EXCEPT !.labels = {<<KlusterletWorksLabel, "true">>},
                   !.manifests = [i \in 1..Len(yamls) |-> converted[i].json],
                   !.deleteOption = "Orphan"]

\* the data of the import secret of ClusterName
ImportSecretData ==
    (ImportSecretCRDSV1YamlKey :> "kind: CRDv1")
        @@ (ImportSecretCRDSV1beta1YamlKey :> "kind: CRDv1beta1")
        @@ (ImportSecretImportYamlKey :> "kind: Namespace\n---\nkind: Deployment")

\* the data of an import secret whose import.yaml holds a document that
\* does not convert
MalformedImportSecretData ==
    (ImportSecretCRDSV1YamlKey :> "kind: CRDv1")
        @@ (ImportSecretCRDSV1beta1YamlKey :> "kind: CRDv1beta1")
        @@ (ImportSecretImportYamlKey :> "kind: Namespace\n---\nkind: [")

\* importSecret.Data of the secret that Reconcile read
ImportSecretOf(sec) ==
    IF sec = "malformed" THEN MalformedImportSecretData ELSE ImportSecretData

\* helpers.ApplyResources: creates what is missing, keeps what exists
ApplyResources(st, objs, joined) ==
    st \cup {[o EXCEPT !.finalizer = joined] :
                o \in {x \in objs : ~\E w \in st : w.namespace = x.namespace /\ w.name = x.name}}

\* the calls of an invocation that can fail
Faults ==
    {"retire", "noAddons", "listPending", "get"} \cup {FailDelete(n) : n \in Range(WorkNames)}

\* an input of an invocation: the set of its calls that fail
Inputs == {f \in SUBSET Faults : Cardinality(f) <= MaxFaults}

Observe(path, works, r, st, cl, ad) ==
    [path |-> path,
     listed |-> [i \in 1..Len(works) |-> works[i].name],
     decision |-> r.decision, requeueAfter |-> r.requeueAfter,
     worksErrs |-> r.worksErrs, errs |-> r.errs,
     ops |-> r.ops,
     pre |-> [store |-> store, cluster |-> cluster, addons |-> addons],
     post |-> [store |-> st, cluster |-> cl, addons |-> ad]]

\* no invocation has run since the environment last acted
Idle ==
    [path |-> "none", listed |-> <<>>, decision |-> "none",
     requeueAfter |-> 0, worksErrs |-> <<>>, errs |-> <<>>, ops |-> <<>>,
     pre |-> <<>>, post |-> <<>>]

NoResult ==
    [decision |-> "none", requeueAfter |-> 0, worksErrs |-> <<>>, errs |-> <<>>, ops |-> <<>>]

\* only a call that the invocation makes can fail: the calls that take a
\* fault are those of the deletion of a deleting cluster; for an available
\* cluster deleteManifestWorks returns at its first failing call, for an
\* unavailable one it makes no call but the forced deletes
CanFail(in) ==
    /\ in # {} => cluster.exists /\ cluster.deletionTimestamp
    /\ IF cluster.unavailable
       THEN in \cap {"noAddons", "listPending", "get"} = {}
       ELSE Cardinality(in \ {"retire"}) <= 1
    /\ \A n \in Range(WorkNames) :
          FailDelete(n) \in in =>
              \/ n = Sprintf(ClusterName, KlusterletCRDsSuffix)
              \/ \E w \in store : w.namespace = ClusterName /\ w.name = n

\* Reconcile that takes the deletion path whatever the deletion timestamp
Reconcile_DeleteAlways(in) ==
    LET works == ListWorks(store, ClusterName)
        asserted == AssertManifestWorkFinalizer(cluster, Len(works))
        kept == Persist(asserted)
        td == deleteAddonsAndWorks(store, asserted, works, addons, in)
        importSecret == ImportSecretOf(secret)
        crds == createKlusterletCRDsManifestWork(asserted, importSecret)
        klusterlet == createKlusterletManifestWork(asserted, importSecret)
        applied == ApplyResources(store, {crds, klusterlet}, cluster.joined)
        ReturnErr(f, listed, cl) ==
            /\ cluster' = cl
            /\ last' = Observe("Error", listed, [NoResult EXCEPT !.errs = <<f>>],
                               store, cl, addons)
            /\ UNCHANGED <<store, addons, secret>>
    IN
    IF "getCluster" \in in THEN ReturnErr("getCluster", <<>>, cluster)
    ELSE IF ~cluster.exists THEN
        /\ last' = Observe("NotFound", <<>>, NoResult, store, cluster, addons)
        /\ UNCHANGED <<store, cluster, addons, secret>>
    ELSE IF DetermineKlusterletMode(cluster) # KlusterletDeployModeDefault THEN
        /\ last' = Observe("NotDefaultMode", <<>>, NoResult, store, cluster, addons)
        /\ UNCHANGED <<store, cluster, addons, secret>>
    ELSE IF "list" \in in THEN ReturnErr("list", <<>>, cluster)
    ELSE IF "assertFinalizer" \in in THEN ReturnErr("assertFinalizer", works, cluster)
    ELSE IF TRUE THEN
        /\ store' = td.store
        /\ addons' = td.addons
        /\ cluster' = kept
        /\ last' = Observe("Teardown", works, td, td.store, kept, td.addons)
        /\ UNCHANGED secret
    ELSE IF "getSecret" \in in THEN ReturnErr("getSecret", works, kept)
    ELSE IF secret = "absent" THEN
        /\ cluster' = kept
        /\ last' = Observe("NoImportSecret", works, NoResult, store, kept, addons)
        /\ UNCHANGED <<store, addons, secret>>
    ELSE IF "validate" \in in THEN ReturnErr("validate", works, kept)
    ELSE IF crds = Panic \/ klusterlet = Panic THEN
        /\ cluster' = kept
        /\ last' = Observe("Panic", works, NoResult, store, kept, addons)
        /\ UNCHANGED <<store, addons, secret>>
    ELSE IF "apply" \in in THEN ReturnErr("apply", works, kept)
    ELSE
        /\ store' = applied
        /\ cluster' = kept
        /\ last' = Observe("Apply", works, NoResult, applied, kept, addons)
        /\ UNCHANGED <<addons, secret>>

\* Reconcile that takes every error of the read of the import secret for NotFound
Reconcile_SecretErrorIsAbsent(in) ==
    LET works == ListWorks(store, ClusterName)
        asserted == AssertManifestWorkFinalizer(cluster, Len(works))
        kept == Persist(asserted)
        td == deleteAddonsAndWorks(store, asserted, works, addons, in)
        importSecret == ImportSecretOf(secret)
        crds == createKlusterletCRDsManifestWork(asserted, importSecret)
        klusterlet == createKlusterletManifestWork(asserted, importSecret)
        applied == ApplyResources(store, {crds, klusterlet}, cluster.joined)
        ReturnErr(f, listed, cl) ==
            /\ cluster' = cl
            /\ last' = Observe("Error", listed, [NoResult EXCEPT !.errs = <<f>>],
                               store, cl, addons)
            /\ UNCHANGED <<store, addons, secret>>
    IN
    IF "getCluster" \in in THEN ReturnErr("getCluster", <<>>, cluster)
    ELSE IF ~cluster.exists THEN
        /\ last' = Observe("NotFound", <<>>, NoResult, store, cluster, addons)
        /\ UNCHANGED <<store, cluster, addons, secret>>
    ELSE IF DetermineKlusterletMode(cluster) # KlusterletDeployModeDefault THEN
        /\ last' = Observe("NotDefaultMode", <<>>, NoResult, store, cluster, addons)
        /\ UNCHANGED <<store, cluster, addons, secret>>
    ELSE IF "list" \in in THEN ReturnErr("list", <<>>, cluster)
    ELSE IF "assertFinalizer" \in in THEN ReturnErr("assertFinalizer", works, cluster)
    ELSE IF cluster.deletionTimestamp THEN
        /\ store' = td.store
        /\ addons' = td.addons
        /\ cluster' = kept
        /\ last' = Observe("Teardown", works, td, td.store, kept, td.addons)
        /\ UNCHANGED secret
    ELSE IF "getSecret" \in in \/ secret = "absent" THEN
        /\ cluster' = kept
        /\ last' = Observe("NoImportSecret", works, NoResult, store, kept, addons)
        /\ UNCHANGED <<store, addons, secret>>
    ELSE IF "validate" \in in THEN ReturnErr("validate", works, kept)
    ELSE IF crds = Panic \/ klusterlet = Panic THEN
        /\ cluster' = kept
        /\ last' = Observe("Panic", works, NoResult, store, kept, addons)
        /\ UNCHANGED <<store, addons, secret>>
    ELSE IF "apply" \in in THEN ReturnErr("apply", works, kept)
    ELSE
        /\ store' = applied
        /\ cluster' = kept
        /\ last' = Observe("Apply", works, NoResult, applied, kept, addons)
        /\ UNCHANGED <<addons, secret>>

\* Reconcile that applies the works of a deleting cluster that has an import
\* secret
Reconcile_TeardownOnlyWithoutSecret(in) ==
    LET works == ListWorks(store, ClusterName)
        asserted == AssertManifestWorkFinalizer(cluster, Len(works))
        kept == Persist(asserted)
        td == deleteAddonsAndWorks(store, asserted, works, addons, in)
        importSecret == ImportSecretOf(secret)
        crds == createKlusterletCRDsManifestWork(asserted, importSecret)
        klusterlet == createKlusterletManifestWork(asserted, importSecret)
        applied == ApplyResources(store, {crds, klusterlet}, cluster.joined)
        ReturnErr(f, listed, cl) ==
            /\ cluster' = cl
            /\ last' = Observe("Error", listed, [NoResult EXCEPT !.errs = <<f>>],
                               store, cl, addons)
            /\ UNCHANGED <<store, addons, secret>>
    IN
    IF "getCluster" \in in THEN ReturnErr("getCluster", <<>>, cluster)
    ELSE IF ~cluster.exists THEN
        /\ last' = Observe("NotFound", <<>>, NoResult, store, cluster, addons)
        /\ UNCHANGED <<store, cluster, addons, secret>>
    ELSE IF DetermineKlusterletMode(cluster) # KlusterletDeployModeDefault THEN
        /\ last' = Observe("NotDefaultMode", <<>>, NoResult, store, cluster, addons)
        /\ UNCHANGED <<store, cluster, addons, secret>>
    ELSE IF "list" \in in THEN ReturnErr("list", <<>>, cluster)
    ELSE IF "assertFinalizer" \in in THEN ReturnErr("assertFinalizer", works, cluster)
    ELSE IF cluster.deletionTimestamp /\ secret = "absent" THEN
        /\ store' = td.store
        /\ addons' = td.addons
        /\ cluster' = kept
        /\ last' = Observe("Teardown", works, td, td.store, kept, td.addons)
        /\ UNCHANGED secret
    ELSE IF "getSecret" \in in THEN ReturnErr("getSecret", works, kept)
    ELSE IF secret = "absent" THEN
        /\ cluster' = kept
        /\ last' = Observe("NoImportSecret", works, NoResult, store, kept, addons)
        /\ UNCHANGED <<store, addons, secret>>
    ELSE IF "validate" \in in THEN ReturnErr("validate", works, kept)
    ELSE IF crds = Panic \/ klusterlet = Panic THEN
        /\ cluster' = kept
        /\ last' = Observe("Panic", works, NoResult, store, kept, addons)
        /\ UNCHANGED <<store, addons, secret>>
    ELSE IF "apply" \in in THEN ReturnErr("apply", works, kept)
    ELSE
        /\ store' = applied
        /\ cluster' = kept
        /\ last' = Observe("Apply", works, NoResult, applied, kept, addons)
        /\ UNCHANGED <<addons, secret>>

\* Reconcile that does not look at the klusterlet deploy mode
Reconcile_AnyMode(in) ==
    LET works == ListWorks(store, ClusterName)
        asserted == AssertManifestWorkFinalizer(cluster, Len(works))
        kept == Persist(asserted)
        td == deleteAddonsAndWorks(store, asserted, works, addons, in)
        importSecret == ImportSecretOf(secret)
        crds == createKlusterletCRDsManifestWork(asserted, importSecret)
        klusterlet == createKlusterletManifestWork(asserted, importSecret)
        applied == ApplyResources(store, {crds, klusterlet}, cluster.joined)
        ReturnErr(f, listed, cl) ==
            /\ cluster' = cl
            /\ last' = Observe("Error", listed, [NoResult EXCEPT !.errs = <<f>>],
                               store, cl, addons)
            /\ UNCHANGED <<store, addons, secret>>
    IN
    IF "getCluster" \in in THEN ReturnErr("getCluster", <<>>, cluster)
    ELSE IF ~cluster.exists THEN
        /\ last' = Observe("NotFound", <<>>, NoResult, store, cluster, addons)
        /\ UNCHANGED <<store, cluster, addons, secret>>
    ELSE IF FALSE THEN
        /\ last' = Observe("NotDefaultMode", <<>>, NoResult, store, cluster, addons)
        /\ UNCHANGED <<store, cluster, addons, secret>>
    ELSE IF "list" \in in THEN ReturnErr("list", <<>>, cluster)
    ELSE IF "assertFinalizer" \in in THEN ReturnErr("assertFinalizer", works, cluster)
    ELSE IF cluster.deletionTimestamp THEN
        /\ store' = td.store
        /\ addons' = td.addons
        /\ cluster' = kept
        /\ last' = Observe("Teardown", works, td, td.store, kept, td.addons)
        /\ UNCHANGED secret
    ELSE IF "getSecret" \in in THEN ReturnErr("getSecret", works, kept)
    ELSE IF secret = "absent" THEN
        /\ cluster' = kept
        /\ last' = Observe("NoImportSecret", works, NoResult, store, kept, addons)
        /\ UNCHANGED <<store, addons, secret>>
    ELSE IF "validate" \in in THEN ReturnErr("validate", works, kept)
    ELSE IF crds = Panic \/ klusterlet = Panic THEN
        /\ cluster' = kept
        /\ last' = Observe("Panic", works, NoResult, store, kept, addons)
        /\ UNCHANGED <<store, addons, secret>>
    ELSE IF "apply" \in in THEN ReturnErr("apply", works, kept)
    ELSE
        /\ store' = applied
        /\ cluster' = kept
        /\ last' = Observe("Apply", works, NoResult, applied, kept, addons)
        /\ UNCHANGED <<addons, secret>>

\* ReconcileManifestWork.Reconcile for the request ClusterName
Reconcile(in) ==
    LET works == ListWorks(store, ClusterName)
        asserted == AssertManifestWorkFinalizer(cluster, Len(works))
        kept == Persist(asserted)
        td == deleteAddonsAndWorks(store, asserted, works, addons, in)
        importSecret == ImportSecretOf(secret)
        crds == createKlusterletCRDsManifestWork(asserted, importSecret)
        klusterlet == createKlusterletManifestWork(asserted, importSecret)
        applied == ApplyResources(store, {crds, klusterlet}, cluster.joined)
        ReturnErr(f, listed, cl) ==
            /\ cluster' = cl
            /\ last' = Observe("Error", listed, [NoResult EXCEPT !.errs = <<f>>],
                               store, cl, addons)
            /\ UNCHANGED <<store, addons, secret>>
    IN
    IF "getCluster" \in in THEN ReturnErr("getCluster", <<>>, cluster)
    ELSE IF ~cluster.exists THEN
        /\ last' = Observe("NotFound", <<>>, NoResult, store, cluster, addons)
        /\ UNCHANGED <<store, cluster, addons, secret>>
    ELSE IF DetermineKlusterletMode(cluster) # KlusterletDeployModeDefault THEN
        /\ last' = Observe("NotDefaultMode", <<>>, NoResult, store, cluster, addons)
        /\ UNCHANGED <<store, cluster, addons, secret>>
    ELSE IF "list" \in in THEN ReturnErr("list", <<>>, cluster)
    ELSE IF "assertFinalizer" \in in THEN ReturnErr("assertFinalizer", works, cluster)
    ELSE IF cluster.deletionTimestamp THEN
        /\ store' = td.store
        /\ addons' = td.addons
        /\ cluster' = kept
        /\ last' = Observe("Teardown", works, td, td.store, kept, td.addons)
        /\ UNCHANGED secret
    ELSE IF "getSecret" \in in THEN ReturnErr("getSecret", works, kept)
    ELSE IF secret = "absent" THEN
        /\ cluster' = kept
        /\ last' = Observe("NoImportSecret", works, NoResult, store, kept, addons)
        /\ UNCHANGED <<store, addons, secret>>
    ELSE IF "validate" \in in THEN ReturnErr("validate", works, kept)
    ELSE IF crds = Panic \/ klusterlet = Panic THEN
        /\ cluster' = kept
        /\ last' = Observe("Panic", works, NoResult, store, kept, addons)
        /\ UNCHANGED <<store, addons, secret>>
    ELSE IF "apply" \in in THEN ReturnErr("apply", works, kept)
    ELSE
        /\ store' = applied
        /\ cluster' = kept
        /\ last' = Observe("Apply", works, NoResult, applied, kept, addons)
        /\ UNCHANGED <<addons, secret>>

----------------------------------------------------------------------------
(* The environment: users, the work agent and the addon controllers *)

\* the import secret of the cluster is generated
CreateImportSecret ==
    /\ cluster.exists /\ secret = "absent"
    /\ secret' = "present"
    /\ last' = Idle
    /\ UNCHANGED <<store, cluster, addons>>

\* an addon or a user creates a manifest work in the cluster namespace
CreateWork(n) ==
    /\ cluster.exists
    /\ ~\E w \in store : w.namespace = ClusterName /\ w.name = n
    /\ store' = ApiCreate(store, ManifestWork(ClusterName, n), cluster.joined)
    /\ last' = Idle
    /\ UNCHANGED <<cluster, addons, secret>>

\* an addon controller or a user deletes a work this controller does not own
DeleteWork(w) ==
    /\ w.name \in ExternalWorkNames /\ ~w.deleting
    /\ store' = ApiDelete(store, w)
    /\ last' = Idle
    /\ UNCHANGED <<cluster, addons, secret>>

\* the work agent cleans up a deleting work and releases it
AgentFinalize(w) ==
    /\ w.deleting
    /\ store' = store \ {w}
    /\ last' = Idle
    /\ UNCHANGED <<cluster, addons, secret>>

\* a user deletes the managed cluster
DeleteCluster ==
    /\ cluster.exists /\ ~cluster.deletionTimestamp
    /\ cluster' = Persist([cluster EXCEPT !.deletionTimestamp = TRUE])
    /\ last' = Idle
    /\ UNCHANGED <<store, addons, secret>>

\* the postpone-delete period after the cluster deletion runs out
PostponeElapses ==
    /\ cluster.exists /\ cluster.deletionTimestamp /\ ~cluster.pastPostpone
    /\ cluster' = [cluster EXCEPT !.pastPostpone = TRUE]
    /\ last' = Idle
    /\ UNCHANGED <<store, addons, secret>>

\* the availability condition of the cluster changes
AvailabilityChanges ==
    /\ cluster.exists
    /\ cluster' = [cluster EXCEPT !.unavailable = ~cluster.unavailable]
    /\ last' = Idle
    /\ UNCHANGED <<store, addons, secret>>

\* an addon is enabled for the cluster
AddonInstalled ==
    /\ cluster.exists /\ ~cluster.deletionTimestamp /\ addons = "none"
    /\ addons' = "present"
    /\ last' = Idle
    /\ UNCHANGED <<store, cluster, secret>>

\* the addon controllers finish removing the addons
AddonsRemoved ==
    /\ addons = "deleting"
    /\ addons' = "none"
    /\ last' = Idle
    /\ UNCHANGED <<store, cluster, secret>>

----------------------------------------------------------------------------

Init ==
    /\ store = {}
    /\ \E joined \in BOOLEAN :
        cluster = [name |-> ClusterName, exists |-> TRUE, deletionTimestamp |-> FALSE,
                   pastPostpone |-> FALSE, unavailable |-> FALSE, finalizer |-> FALSE,
                   mode |-> KlusterletDeployModeDefault, joined |-> joined,
                   kubernetes |-> ""]
    /\ addons = "none"
    /\ secret = "absent"
    /\ last = Idle

Next ==
    \/ \E in \in Inputs : CanFail(in) /\ Reconcile(in)
    \/ CreateImportSecret
    \/ \E n \in ExternalWorkNames : CreateWork(n)
    \/ \E w \in store : DeleteWork(w)
    \/ \E w \in store : AgentFinalize(w)
    \/ DeleteCluster
    \/ PostponeElapses
    \/ AvailabilityChanges
    \/ AddonInstalled
    \/ AddonsRemoved

Spec == Init /\ [][Next]_vars

----------------------------------------------------------------------------
(* Two invocations of the deletion path on the same works *)

\* the works of the given names as the cluster namespace holds them
StoreOf(names, joined) ==
    {[ManifestWork(ClusterName, n) EXCEPT !.finalizer = joined] : n \in names}

\* a deleting cluster that still has its finalizer, with any works in its
\* namespace, any availability, any state of the addons
InitDecide ==
    /\ \E joined \in BOOLEAN, unavailable \in BOOLEAN, pastPostpone \in BOOLEAN :
        /\ cluster = [name |-> ClusterName, exists |-> TRUE, deletionTimestamp |-> TRUE,
                      pastPostpone |-> pastPostpone, unavailable |-> unavailable,
                      finalizer |-> TRUE, mode |-> KlusterletDeployModeDefault,
                      joined |-> joined, kubernetes |-> ""]
        /\ \E names \in SUBSET Range(WorkNames) : store = StoreOf(names, joined)
    /\ addons \in {"none", "present", "deleting"}
    /\ secret = "absent"
    /\ last = Idle

\* deleteAddonsAndWorks is run on the works, the availability and the
\* deletion timestamp of the state, once with the addons and the postpone
\* period of the state and once with those given
Decide(ad, pastPostpone) ==
    LET works == ListWorks(store, ClusterName)
        other == [cluster EXCEPT !.pastPostpone = pastPostpone]
    IN
    /\ last = Idle
    /\ last' = [path |-> "Pair",
                listed |-> [i \in 1..Len(works) |-> works[i].name],
                first |-> deleteAddonsAndWorks(store, cluster, works, addons, {}),
                second |-> deleteAddonsAndWorks(store, other, works, ad, {}),
                addons |-> <<addons, ad>>,
                pastPostpone |-> <<cluster.pastPostpone, pastPostpone>>]
    /\ UNCHANGED <<store, cluster, addons, secret>>

NextDecide == \E ad \in {"none", "present", "deleting"}, pastPostpone \in BOOLEAN :
                  Decide(ad, pastPostpone)

SpecDecide == InitDecide /\ [][NextDecide]_vars

----------------------------------------------------------------------------
(* The works of a second managed cluster next to those of ClusterName *)

OtherClusterName == "t2"

\* works in the namespace of the other cluster whose names are names that
\* the invocation for ClusterName looks for in its own namespace
CollidingWorks ==
    {ManifestWork(OtherClusterName, n) : n \in {KlusterletName, CRDsName}}

\* the two klusterlet works of the other cluster
OtherClusterWorks ==
    {ManifestWork(OtherClusterName, Sprintf(OtherClusterName, KlusterletCRDsSuffix)),
     ManifestWork(OtherClusterName, Sprintf(OtherClusterName, KlusterletSuffix))}

\* the invocation for the other cluster applies its klusterlet works
OtherClusterApplies ==
    /\ OtherClusterWorks \cap store = {}
    /\ store' = store \cup OtherClusterWorks
    /\ last' = Idle
    /\ UNCHANGED <<cluster, addons, secret>>

\* the invocations for the other cluster have removed its klusterlet works
OtherClusterTornDown ==
    /\ OtherClusterWorks \subseteq store
    /\ store' = store \ OtherClusterWorks
    /\ last' = Idle
    /\ UNCHANGED <<cluster, addons, secret>>

InitNamespaces ==
    /\ store = CollidingWorks
    /\ \E joined \in BOOLEAN :
        cluster = [name |-> ClusterName, exists |-> TRUE, deletionTimestamp |-> FALSE,
                   pastPostpone |-> FALSE, unavailable |-> FALSE, finalizer |-> FALSE,
                   mode |-> KlusterletDeployModeDefault, joined |-> joined,
                   kubernetes |-> ""]
    /\ addons = "none"
    /\ secret = "absent"
    /\ last = Idle

NextNamespaces ==
    \/ Next
    \/ OtherClusterApplies
    \/ OtherClusterTornDown

SpecNamespaces == InitNamespaces /\ [][NextNamespaces]_vars

----------------------------------------------------------------------------
(* The two builders on any cluster and any import secret *)

\* the documents of a secret: two that convert and one that does not
YamlDocuments == {"kind: Namespace", "kind: Deployment", "kind: ["}

DocSeqs == UNION {[1..n -> YamlDocuments] : n \in 1..MaxDocs}

\* the documents as one YAML stream
RECURSIVE JoinYamls(_)
JoinYamls(docs) ==
    IF Len(docs) = 1 THEN docs[1]
    ELSE docs[1] \o YamlSeparator \o JoinYamls(Tail(docs))

KubernetesVersions == {"", "v1.11.0", "v1.22.0"}

ImportSecrets ==
    {(ImportSecretCRDSV1YamlKey :> v1) @@ (ImportSecretCRDSV1beta1YamlKey :> v1beta1)
        @@ (ImportSecretImportYamlKey :> JoinYamls(docs)) :
            v1 \in {"kind: CRDv1", "kind: ["},
            v1beta1 \in {"kind: CRDv1beta1", "kind: ["},
            docs \in DocSeqs}

InitBuild ==
    /\ store = {}
    /\ \E name \in {ClusterName, OtherClusterName}, version \in KubernetesVersions :
        cluster = [name |-> name, exists |-> TRUE, deletionTimestamp |-> FALSE,
                   pastPostpone |-> FALSE, unavailable |-> FALSE, finalizer |-> FALSE,
                   mode |-> KlusterletDeployModeDefault, joined |-> version # "",
                   kubernetes |-> version]
    /\ addons = "none"
    /\ secret \in ImportSecrets
    /\ last = Idle

\* the two arguments of helpers.ApplyResources are built
Build ==
    /\ last = Idle
    /\ last' = [path |-> "Build",
                crds |-> createKlusterletCRDsManifestWork(cluster, secret),
                klusterlet |-> createKlusterletManifestWork(cluster, secret)]
    /\ UNCHANGED <<store, cluster, addons, secret>>

NextBuild == Build

SpecBuild == InitBuild /\ [][NextBuild]_vars

----------------------------------------------------------------------------
(* Reconcile with failing reads and with an import secret that does not convert *)

\* the calls of Reconcile outside the deletion path that can fail
ReadFaults == {"getCluster", "list", "assertFinalizer", "getSecret", "validate", "apply"}

\* the call is one that the invocation makes
CanFailRead(f) ==
    LET listing == cluster.exists /\ DetermineKlusterletMode(cluster) = KlusterletDeployModeDefault
        importing == listing /\ ~cluster.deletionTimestamp
    IN  CASE f = "getCluster" -> TRUE
          [] f \in {"list", "assertFinalizer"} -> listing
          [] f = "getSecret" -> importing
          [] f = "validate" -> importing /\ secret # "absent"
          [] f = "apply" -> importing /\ secret = "present"

\* an invocation in which one of these calls fails
ReconcileFails(f) == CanFailRead(f) /\ Reconcile({f})

\* an import secret is stored whose import.yaml holds a document that does
\* not convert
CreateMalformedImportSecret ==
    /\ cluster.exists /\ secret = "absent"
    /\ secret' = "malformed"
    /\ last' = Idle
    /\ UNCHANGED <<store, cluster, addons>>

NextFaulty ==
    \/ Next
    \/ \E f \in ReadFaults : ReconcileFails(f)
    \/ CreateMalformedImportSecret

SpecFaulty == Init /\ [][NextFaulty]_vars

----------------------------------------------------------------------------
(* The two selectors on any work name *)

\* names on both sides of every case of the two selectors
SelectorNames ==
    {"t1-crds", "t1-klusterlet", "t1-hosted-klusterlet", "t1-hosted-kubeconfig",
     "t1-klusterlet-addon", "t1-klusterlet-addon-foo", "t1-klusterlet-x", "t1-crds-x",
     "t2-crds", "t2-klusterlet", "t2-hosted-klusterlet", "t2-klusterlet-addon-foo",
     "addon-foo-deploy", "addon-foo-pre-delete", "addon-deploy", "addon-pre-delete",
     "addon-", "addon-foo", "xaddon-foo-deploy", "addon-foo-deployx", "foo-deploy",
     "foo-other", "klusterlet", ""}

InitSelect ==
    /\ \E name \in SelectorNames, ns \in {ClusterName, OtherClusterName} :
        store = {ManifestWork(ns, name)}
    /\ \E name \in {ClusterName, OtherClusterName} :
        cluster = [name |-> name, exists |-> TRUE, deletionTimestamp |-> TRUE,
                   pastPostpone |-> FALSE, unavailable |-> FALSE, finalizer |-> TRUE,
                   mode |-> KlusterletDeployModeDefault, joined |-> FALSE,
                   kubernetes |-> ""]
    /\ addons = "none"
    /\ secret = "absent"
    /\ last = Idle

\* the two selectors are asked about the work
Select ==
    /\ last = Idle
    /\ \E w \in store :
        last' = [path |-> "Select", work |-> w,
                 ignoredByBatch |-> ignoreKlusterletAndAddons(cluster.name, w),
                 ignoredByPending |-> ignoreKlusterlet(cluster.name, w)]
    /\ UNCHANGED <<store, cluster, addons, secret>>

NextSelect == Select

SpecSelect == InitSelect /\ [][NextSelect]_vars

----------------------------------------------------------------------------
(* The finalizers of a managed cluster *)

\* the finalizers of the test tables
FinalizerNames == {"test", "test1", "test2"}

\* the lists of finalizers of a stored managed cluster: no finalizer twice
FinalizerLists ==
    {l \in UNION {[1..n -> FinalizerNames] : n \in 0..MaxFinalizers} :
        \A i \in 1..Len(l), j \in 1..Len(l) : l[i] = l[j] => i = j}

\* helpers.AddManagedClusterFinalizer that appends without looking
AddManagedClusterFinalizer_AlwaysAppend(finalizers, finalizer) ==
    [finalizers |-> Append(finalizers, finalizer), modified |-> TRUE]

\* helpers.AddManagedClusterFinalizer: appends the finalizer and sets
\* modified unless the cluster carries it
AddManagedClusterFinalizer(finalizers, finalizer) ==
    IF \E i \in 1..Len(finalizers) : finalizers[i] = finalizer
    THEN [finalizers |-> finalizers, modified |-> FALSE]
    ELSE [finalizers |-> Append(finalizers, finalizer), modified |-> TRUE]

\* helpers.RemoveManagedClusterFinalizer that drops the last finalizer when
\* the cluster carries the named one
RemoveManagedClusterFinalizer_DropsLast(finalizers, finalizer) ==
    IF \E i \in 1..Len(finalizers) : finalizers[i] = finalizer
    THEN [finalizers |-> SubSeq(finalizers, 1, Len(finalizers) - 1), patched |-> TRUE,
          err |-> FALSE]
    ELSE [finalizers |-> finalizers, patched |-> FALSE, err |-> FALSE]

\* helpers.RemoveManagedClusterFinalizer: copies the other finalizers and
\* patches the stored cluster when the copy is shorter
RemoveManagedClusterFinalizer(finalizers, finalizer) ==
    LET copiedFinalizers == SelectSeq(finalizers, LAMBDA f : f # finalizer)
    IN  [finalizers |-> copiedFinalizers,
         patched |-> Len(copiedFinalizers) # Len(finalizers),
         err |-> FALSE]

InitFinalizers ==
    /\ store = {}
    /\ \E finalizers \in FinalizerLists :
        cluster = [name |-> "test_cluster", finalizers |-> finalizers]
    /\ addons = "none"
    /\ secret = "absent"
    /\ last = Idle

\* TestAddManagedClusterFinalizer: the helper on the managed cluster; the
\* caller stores the cluster when modified is set
AddFinalizer(finalizer) ==
    LET r == AddManagedClusterFinalizer(cluster.finalizers, finalizer) IN
    /\ Len(r.finalizers) <= MaxFinalizers
    /\ cluster' = [cluster EXCEPT !.finalizers = r.finalizers]
    /\ last' = [path |-> "AddFinalizer", finalizer |-> finalizer,
                before |-> cluster.finalizers, modified |-> r.modified, err |-> FALSE]
    /\ UNCHANGED <<store, addons, secret>>

\* TestRemoveManagedClusterFinalizer: the helper on the stored managed cluster
RemoveFinalizer(finalizer) ==
    LET r == RemoveManagedClusterFinalizer(cluster.finalizers, finalizer) IN
    /\ cluster' = [cluster EXCEPT !.finalizers = r.finalizers]
    /\ last' = [path |-> "RemoveFinalizer", finalizer |-> finalizer,
                before |-> cluster.finalizers, modified |-> r.patched, err |-> r.err]
    /\ UNCHANGED <<store, addons, secret>>

NextFinalizers ==
    \/ \E finalizer \in FinalizerNames : AddFinalizer(finalizer)
    \/ \E finalizer \in FinalizerNames : RemoveFinalizer(finalizer)

SpecFinalizers == InitFinalizers /\ [][NextFinalizers]_vars

----------------------------------------------------------------------------
(* The deletion of a cluster whose calls succeed and whose deletes take effect *)

InitTeardown ==
    /\ store = {}
    /\ \E joined \in BOOLEAN, kubernetes \in KubernetesVersions :
        cluster = [name |-> ClusterName, exists |-> TRUE, deletionTimestamp |-> FALSE,
                   pastPostpone |-> FALSE, unavailable |-> FALSE, finalizer |-> FALSE,
                   mode |-> KlusterletDeployModeDefault, joined |-> joined,
                   kubernetes |-> kubernetes]
    /\ addons = "none"
    /\ secret = "absent"
    /\ last = Idle

\* the controller is triggered and none of its calls fails
Trigger == Reconcile({})

\* the work agent releases a deleting work
DeleteTakesEffect == \E w \in store : AgentFinalize(w)

NextTeardown ==
    \/ Trigger
    \/ DeleteTakesEffect
    \/ CreateImportSecret
    \/ DeleteCluster
    \/ PostponeElapses

\* the work queue runs the reconciler again for as long as an invocation
\* would change something, and the agent of a joined cluster releases the
\* works it is asked to delete
SpecTeardown ==
    /\ InitTeardown
    /\ [][NextTeardown]_vars
    /\ WF_vars(Trigger)
    /\ WF_vars(DeleteTakesEffect)

----------------------------------------------------------------------------
(* Clusters of either klusterlet deploy mode *)

KlusterletDeployModeHosted == "Hosted"

\* a cluster of the hosted mode may carry the finalizer from the controller
\* of that mode
InitModes ==
    /\ store = {}
    /\ \E joined \in BOOLEAN, finalizer \in BOOLEAN,
          mode \in {KlusterletDeployModeDefault, KlusterletDeployModeHosted} :
        /\ mode = KlusterletDeployModeDefault => ~finalizer
        /\ cluster = [name |-> ClusterName, exists |-> TRUE, deletionTimestamp |-> FALSE,
                      pastPostpone |-> FALSE, unavailable |-> FALSE, finalizer |-> finalizer,
                      mode |-> mode, joined |-> joined, kubernetes |-> ""]
    /\ addons = "none"
    /\ secret = "absent"
    /\ last = Idle

SpecModes == InitModes /\ [][Next]_vars

----------------------------------------------------------------------------
(* The reconciler of the self managed cluster, next to the one of the works *)

\* the values of the label constants.SelfManagedLabel; "" is no label
SelfManagedLabels == {"", "true", "True", "false"}

\* unicode.ToLower on the letters of the label values
ToLowerLetter(c) ==
    CASE c = "T" -> "t" [] c = "R" -> "r" [] c = "U" -> "u" [] c = "E" -> "e"
      [] c = "F" -> "f" [] c = "A" -> "a" [] c = "L" -> "l" [] c = "S" -> "s"
      [] OTHER -> c

RECURSIVE ToLower(_)
ToLower(s) ==
    IF Len(s) = 0 THEN ""
    ELSE ToLowerLetter(SubSeq(s, 1, 1)) \o ToLower(SubSeq(s, 2, Len(s)))

\* strings.EqualFold
EqualFold(s, t) == ToLower(s) = ToLower(t)

\* the list of the works of the namespace that carry the label
\* constants.KlusterletWorksLabel: "true"
KlusterletWorks(st, ns) ==
    SelectSeq(ListWorks(st, ns), LAMBDA w : <<KlusterletWorksLabel, "true">> \in w.labels)

ConditionImported ==
    [type |-> "ManagedClusterImportSucceeded", status |-> "True",
     message |-> "Import succeeded", reason |-> "ManagedClusterImported"]

ConditionNotImported ==
    [type |-> "ManagedClusterImportSucceeded", status |-> "False",
     message |-> "Unable to import", reason |-> "ManagedClusterNotImported"]

\* helpers.ImportManagedClusterFromSecret: applies the documents of the
\* import secret to the cluster
ImportManagedClusterFromSecret(importSecret, in) == [err |-> "import" \in in]

\* helpers.UpdateManagedClusterStatus that writes nothing and returns no error
UpdateManagedClusterStatus_NoWrite(cl, cond, in) == [cluster |-> cl, err |-> FALSE]

\* helpers.UpdateManagedClusterStatus: sets the condition of that type in the
\* status of the stored cluster
UpdateManagedClusterStatus(cl, cond, in) ==
    IF "updateStatus" \in in THEN [cluster |-> cl, err |-> TRUE]
    ELSE [cluster |-> [cl EXCEPT !.conditions =
                          {c \in @ : c.type # cond.type} \cup {cond}],
          err |-> FALSE]

\* the calls of an invocation of ReconcileLocalCluster that can fail
LocalFaults ==
    {"getCluster", "getAutoImportSecret", "getSecret", "list", "import", "updateStatus"}

LocalInputs == {f \in SUBSET LocalFaults : Cardinality(f) <= MaxFaults}

\* only a call that the invocation makes can fail, and the invocation
\* returns at the first failing call that comes before the import
LocalCanFail(in) ==
    LET selfManaged == cluster.exists /\ EqualFold(cluster.selfManaged, "true")
        readsSecret == selfManaged /\ ~cluster.autoImportSecret
        lists == readsSecret /\ secret # "absent"
        imports == lists /\ Len(KlusterletWorks(store, ClusterName)) = 2
    IN  /\ "getCluster" \in in => in = {"getCluster"}
        /\ "getAutoImportSecret" \in in => selfManaged /\ in = {"getAutoImportSecret"}
        /\ "getSecret" \in in => readsSecret /\ in = {"getSecret"}
        /\ "list" \in in => lists /\ in = {"list"}
        /\ in \cap {"import", "updateStatus"} # {} =>
              imports /\ in \subseteq {"import", "updateStatus"}

\* ReconcileLocalCluster.Reconcile that imports with two works or more
ReconcileLocalCluster_AtLeastTwo(in) ==
    LET manifestWorks == KlusterletWorks(store, ClusterName)
        imported == ImportManagedClusterFromSecret(secret, in)
        importCondition == IF imported.err THEN ConditionNotImported ELSE ConditionImported
        updated == UpdateManagedClusterStatus(cluster, importCondition, in)
        errs == (IF imported.err THEN <<"import">> ELSE <<>>)
                    \o (IF updated.err THEN <<"updateStatus">> ELSE <<>>)
        Returns(outcome, observed, ops, es, cl, applied) ==
            /\ cluster' = cl
            /\ last' = [path |-> "Local", outcome |-> outcome, observed |-> observed,
                        ops |-> ops, errs |-> es, imported |-> applied,
                        pre |-> [store |-> store, cluster |-> cluster, addons |-> addons],
                        post |-> [store |-> store, cluster |-> cl, addons |-> addons]]
            /\ UNCHANGED <<store, addons, secret>>
    IN
    IF "getCluster" \in in THEN Returns("Error", 0, <<>>, <<"getCluster">>, cluster, FALSE)
    ELSE IF ~cluster.exists THEN Returns("NotFound", 0, <<>>, <<>>, cluster, FALSE)
    ELSE IF ~EqualFold(cluster.selfManaged, "true") THEN
        Returns("NotSelfManaged", 0, <<>>, <<>>, cluster, FALSE)
    ELSE IF "getAutoImportSecret" \in in THEN
        Returns("Error", 0, <<>>, <<"getAutoImportSecret">>, cluster, FALSE)
    ELSE IF cluster.autoImportSecret THEN
        Returns("AutoImportSecret", 0, <<>>, <<>>, cluster, FALSE)
    ELSE IF "getSecret" \in in THEN Returns("Error", 0, <<>>, <<"getSecret">>, cluster, FALSE)
    ELSE IF secret = "absent" THEN Returns("NoImportSecret", 0, <<>>, <<>>, cluster, FALSE)
    ELSE IF "list" \in in THEN Returns("Error", 0, <<>>, <<"list">>, cluster, FALSE)
    ELSE IF Len(manifestWorks) < 2 THEN
        Returns("Waiting", Len(manifestWorks), <<>>, <<>>, cluster, FALSE)
    ELSE
        Returns("Import", Len(manifestWorks),
                <<Op("ImportManagedClusterFromSecret", ClusterName,
                     IF imported.err THEN "error" ELSE "ok"),
                  Op("UpdateManagedClusterStatus", ClusterName,
                     IF updated.err THEN "error" ELSE "ok")>>,
                errs,
                [updated.cluster EXCEPT !.imported = @ \/ ~imported.err],
                ~imported.err)

\* ReconcileLocalCluster.Reconcile for the request ClusterName
ReconcileLocalCluster(in) ==
    LET manifestWorks == KlusterletWorks(store, ClusterName)
        imported == ImportManagedClusterFromSecret(secret, in)
        importCondition == IF imported.err THEN ConditionNotImported ELSE ConditionImported
        updated == UpdateManagedClusterStatus(cluster, importCondition, in)
        errs == (IF imported.err THEN <<"import">> ELSE <<>>)
                    \o (IF updated.err THEN <<"updateStatus">> ELSE <<>>)
        Returns(outcome, observed, ops, es, cl, applied) ==
            /\ cluster' = cl
            /\ last' = [path |-> "Local", outcome |-> outcome, observed |-> observed,
                        ops |-> ops, errs |-> es, imported |-> applied,
                        pre |-> [store |-> store, cluster |-> cluster, addons |-> addons],
                        post |-> [store |-> store, cluster |-> cl, addons |-> addons]]
            /\ UNCHANGED <<store, addons, secret>>
    IN
    IF "getCluster" \in in THEN Returns("Error", 0, <<>>, <<"getCluster">>, cluster, FALSE)
    ELSE IF ~cluster.exists THEN Returns("NotFound", 0, <<>>, <<>>, cluster, FALSE)
    ELSE IF ~EqualFold(cluster.selfManaged, "true") THEN
        Returns("NotSelfManaged", 0, <<>>, <<>>, cluster, FALSE)
    ELSE IF "getAutoImportSecret" \in in THEN
        Returns("Error", 0, <<>>, <<"getAutoImportSecret">>, cluster, FALSE)
    ELSE IF cluster.autoImportSecret THEN
        Returns("AutoImportSecret", 0, <<>>, <<>>, cluster, FALSE)
    ELSE IF "getSecret" \in in THEN Returns("Error", 0, <<>>, <<"getSecret">>, cluster, FALSE)
    ELSE IF secret = "absent" THEN Returns("NoImportSecret", 0, <<>>, <<>>, cluster, FALSE)
    ELSE IF "list" \in in THEN Returns("Error", 0, <<>>, <<"list">>, cluster, FALSE)
    ELSE IF Len(manifestWorks) # 2 THEN
        Returns("Waiting", Len(manifestWorks), <<>>, <<>>, cluster, FALSE)
    ELSE
        Returns("Import", Len(manifestWorks),
                <<Op("ImportManagedClusterFromSecret", ClusterName,
                     IF imported.err THEN "error" ELSE "ok"),
                  Op("UpdateManagedClusterStatus", ClusterName,
                     IF updated.err THEN "error" ELSE "ok")>>,
                errs,
                [updated.cluster EXCEPT !.imported = @ \/ ~imported.err],
                ~imported.err)

InitSelfManaged ==
    /\ store = {}
    /\ \E joined \in BOOLEAN, selfManaged \in SelfManagedLabels :
        cluster = [name |-> ClusterName, exists |-> TRUE, deletionTimestamp |-> FALSE,
                   pastPostpone |-> FALSE, unavailable |-> FALSE, finalizer |-> FALSE,
                   mode |-> KlusterletDeployModeDefault, joined |-> joined,
                   kubernetes |-> "", selfManaged |-> selfManaged,
                   autoImportSecret |-> FALSE, conditions |-> {}, imported |-> FALSE]
    /\ addons = "none"
    /\ secret = "absent"
    /\ last = Idle

\* someone creates a work with the label of the klusterlet works in the
\* namespace of the cluster
CreateLabelledWork ==
    /\ cluster.exists
    /\ ~\E w \in store : w.namespace = ClusterName /\ w.name = OtherWorkName
    /\ store' = ApiCreate(store,
                    [ManifestWork(ClusterName, OtherWorkName)
                        EXCEPT !.labels = {<<KlusterletWorksLabel, "true">>}],
                    cluster.joined)
    /\ last' = Idle
    /\ UNCHANGED <<cluster, addons, secret>>

\* the auto-import secret of the cluster is created, or is deleted
AutoImportSecretChanges ==
    /\ cluster.exists
    /\ cluster' = [cluster EXCEPT !.autoImportSecret = ~@]
    /\ last' = Idle
    /\ UNCHANGED <<store, addons, secret>>

NextSelfManaged ==
    \/ Reconcile({})
    \/ \E in \in LocalInputs : LocalCanFail(in) /\ ReconcileLocalCluster(in)
    \/ CreateImportSecret
    \/ CreateLabelledWork
    \/ AutoImportSecretChanges
    \/ \E w \in store : AgentFinalize(w)
    \/ DeleteCluster
    \/ AddonInstalled
    \/ AddonsRemoved

SpecSelfManaged == InitSelfManaged /\ [][NextSelfManaged]_vars

----------------------------------------------------------------------------
(* Vocabulary of the properties *)

Teardown == last.path = "Teardown"

\* the invocation saw an available cluster with works in its namespace
Reachable == ~last.pre.cluster.unavailable /\ last.listed # <<>>

Names(st) == {w.name : w \in {x \in st : x.namespace = ClusterName}}

WorkOf(st, n) == {w \in st : w.namespace = ClusterName /\ w.name = n}

\* the work is gone from the store or waits for its finalizer
Retired(st, n) == \A w \in WorkOf(st, n) : w.deleting

Untouched(n) == WorkOf(last.post.store, n) = WorkOf(last.pre.store, n)

DeleteOps == {"DeleteManifestWork", "ForceDeleteManifestWork"}

Deletes(n) == \E i \in 1..Len(last.ops) : last.ops[i].op \in DeleteOps /\ last.ops[i].name = n

Called(op) == \E i \in 1..Len(last.ops) : last.ops[i].op = op

Issued(o) == \E i \in 1..Len(last.ops) : last.ops[i] = o

\* some call of the invocation failed
Failed == \E i \in 1..Len(last.ops) : last.ops[i].res = "error"

\* the works that are neither klusterlet works nor addon works
OtherNames == {OtherWorkName, PostponedWorkName}

\* the deletion of the work is held back by its postpone-delete annotation
Postponed(w) == w.postpone /\ ~last.pre.cluster.pastPostpone

----------------------------------------------------------------------------
(* C1 *)

\* C1: on an available cluster a delete of the crds work is issued only after
\* the read of the klusterlet work returned NotFound, and the crds work changes
\* only when the klusterlet work is no longer in the store.
C1_CRDsOnlyAfterKlusterletGone ==
    (Teardown /\ last.decision # "ForceDeleteAll") =>
        /\ \A i \in 1..Len(last.ops) :
              (last.ops[i].op \in DeleteOps /\ last.ops[i].name = CRDsName) =>
                  \E j \in 1..(i - 1) : last.ops[j] = Op("Get", KlusterletName, "NotFound")
        /\ (Deletes(CRDsName) \/ ~Untouched(CRDsName)) => KlusterletName \notin Names(last.pre.store)

C1_Witness ==
    /\ Teardown /\ Reachable
    /\ last.decision = "DeleteDefinitionsBundle"
    /\ CRDsName \in Names(last.pre.store)
    /\ CRDsName \notin Names(last.post.store)

----------------------------------------------------------------------------
(* C2 *)

\* C2: for a deleting cluster that is unavailable and has works, one
\* invocation issues a forced delete for every listed work, in list order
\* and whatever its name, and makes no other call of deleteManifestWorks: no
\* selector, no addon check, no pending-work check, no read of the
\* klusterlet work; every work whose delete did not fail is gone.
C2_ForceDeletesEveryListedWork ==
    (Teardown /\ last.pre.cluster.unavailable /\ last.listed # <<>>) =>
        /\ last.decision = "ForceDeleteAll"
        /\ Len(last.ops) = Len(last.listed) + 1
        /\ last.ops[1].op = "DeleteManagedClusterAddons"
        /\ \A i \in 1..Len(last.listed) :
              /\ last.ops[i + 1].op = "ForceDeleteManifestWork"
              /\ last.ops[i + 1].name = last.listed[i]
              /\ last.ops[i + 1].res # "error" => last.listed[i] \notin Names(last.post.store)
        /\ last.requeueAfter = 0

C2_Witness ==
    /\ Teardown /\ last.pre.cluster.unavailable
    /\ {CRDsName, KlusterletName, OtherWorkName, AddonWorkName} \subseteq Range(last.listed)
    /\ ~Failed
    /\ Names(last.post.store) = {}

----------------------------------------------------------------------------
(* C3 *)

\* C3 as stated: with only works of others in the namespace of an available
\* deleting cluster, an invocation without a failing call deletes nothing
\* and ends waiting for the other works, with no error and no requeue.
C3_Original ==
    (Teardown /\ Reachable /\ Range(last.listed) \subseteq OtherNames /\ ~Failed) =>
        /\ last.post.store = last.pre.store
        /\ last.decision = "WaitForOtherWork"
        /\ last.errs = <<>> /\ last.requeueAfter = 0

\* C3 amended: with only works of others in the namespace of an available
\* deleting cluster, an invocation without a failing call deletes every one
\* of them that is not held back by the postpone-delete annotation, returns
\* no error, and ends waiting for the other works (no requeue) exactly when
\* no addon is left and one of the works is still in the store; it requeues
\* after 10 seconds while addons are left, and goes on to the klusterlet works
\* when the namespace is empty.
C3_OtherWorksAreDeleted ==
    (Teardown /\ Reachable /\ Range(last.listed) \subseteq OtherNames /\ ~Failed) =>
        /\ \A w \in last.pre.store :
              IF Postponed(w) THEN w \in last.post.store /\ ~Deletes(w.name)
              ELSE Deletes(w.name) /\ Retired(last.post.store, w.name)
        /\ last.errs = <<>>
        /\ last.decision = "WaitForOtherWork" <=>
              (last.post.addons = "none" /\ Names(last.post.store) # {})
        /\ last.decision = "WaitForAddons" <=> last.post.addons # "none"
        /\ last.decision = "DeleteDefinitionsBundle" <=>
              (last.post.addons = "none" /\ Names(last.post.store) = {})
        /\ last.requeueAfter = (IF last.post.addons # "none" THEN 10 ELSE 0)

C3_Witness ==
    /\ Teardown /\ Reachable /\ ~Failed
    /\ last.listed = <<OtherWorkName>>
    /\ last.decision = "WaitForOtherWork"
    /\ \E w \in last.post.store : w.name = OtherWorkName /\ w.deleting
    /\ \E w \in last.pre.store : w.name = OtherWorkName /\ ~w.deleting

----------------------------------------------------------------------------
(* C4 *)

\* C4 as stated: on an available cluster no work of another owner is changed
\* by an invocation.
C4_Original ==
    (Teardown /\ Reachable) => \A n \in OtherNames : Untouched(n)

\* C4 amended: on an available cluster, whatever the works in the namespace,
\* no addon work is ever deleted or changed by an invocation (addon works go
\* away only through another actor); the works of others are the ones the
\* batch delete removes, each one up to the first failing delete unless the
\* postpone-delete annotation holds it back.
C4_AddonWorksAreNeverDeleted ==
    (Teardown /\ Reachable) =>
        /\ Untouched(AddonWorkName) /\ ~Deletes(AddonWorkName)
        /\ \A w \in last.pre.store :
              (w.name \in OtherNames /\ ~Postponed(w) /\ last.decision # "BatchDeleteError")
                  => Deletes(w.name)
        /\ \A w \in last.pre.store : Postponed(w) => ~Deletes(w.name)

C4_Witness ==
    /\ Teardown /\ Reachable
    /\ {AddonWorkName, OtherWorkName, CRDsName, KlusterletName} \subseteq Range(last.listed)
    /\ Deletes(OtherWorkName) /\ ~Untouched(OtherWorkName)
    /\ Untouched(AddonWorkName)

----------------------------------------------------------------------------
(* C5 *)

\* C5 as stated: with an addon work and the two klusterlet works in the
\* namespace of an available deleting cluster, one invocation deletes the
\* addon work and leaves the two klusterlet works untouched.
C5_Original ==
    (Teardown /\ Reachable /\ ~Failed
        /\ Range(last.listed) = {AddonWorkName, CRDsName, KlusterletName}) =>
        /\ Deletes(AddonWorkName) /\ Retired(last.post.store, AddonWorkName)
        /\ Untouched(CRDsName) /\ Untouched(KlusterletName)

\* C5 amended: with an addon work and the two klusterlet works in the
\* namespace of an available deleting cluster, one invocation deletes no work
\* at all: the addon work is protected from the batch delete and keeps the
\* invocation from reaching the klusterlet works; it ends waiting for the
\* addons (requeue after 10 seconds) or for the remaining work (no requeue).
C5_AddonWorkIsKept ==
    (Teardown /\ Reachable
        /\ Range(last.listed) = {AddonWorkName, CRDsName, KlusterletName}) =>
        /\ last.post.store = last.pre.store
        /\ \A n \in Range(last.listed) : ~Deletes(n)
        /\ ~Failed =>
              /\ last.decision = (IF last.post.addons = "none" THEN "WaitForOtherWork"
                                   ELSE "WaitForAddons")
              /\ last.requeueAfter = (IF last.post.addons = "none" THEN 0 ELSE 10)

C5_Witness ==
    /\ Teardown /\ Reachable /\ ~Failed
    /\ Range(last.listed) = {AddonWorkName, CRDsName, KlusterletName}
    /\ last.decision = "WaitForOtherWork"
    /\ AddonWorkName \in Names(last.post.store)

----------------------------------------------------------------------------
(* C6 *)

\* C6: when the addon check of an invocation reports that addons are left,
\* deleteManifestWorks deletes neither klusterlet work and returns no error
\* and a requeue after exactly 10 seconds (the only error Reconcile then
\* returns is that of a failed addon removal request); on an available cluster the addon
\* check reports so whenever addons are left and no earlier call failed; the
\* klusterlet work is read, and a klusterlet work deleted, only after the
\* addon check reported that none is left.
C6_AddonsGateKlusterletWorks ==
    Teardown =>
        /\ Issued(Op("NoManagedClusterAddons", ClusterName, "false")) =>
              /\ last.decision = "WaitForAddons"
              /\ Untouched(CRDsName) /\ Untouched(KlusterletName)
              /\ ~Deletes(CRDsName) /\ ~Deletes(KlusterletName)
              /\ last.worksErrs = <<>>
              /\ last.errs = (IF Issued(Op("DeleteManagedClusterAddons", ClusterName, "error"))
                              THEN <<"retire">> ELSE <<>>)
              /\ last.requeueAfter = 10
        /\ (Reachable /\ last.post.addons # "none"
                /\ last.decision \notin {"BatchDeleteError", "NoAddonsError"}) =>
              Issued(Op("NoManagedClusterAddons", ClusterName, "false"))
        /\ (Reachable /\ (Called("Get") \/ Deletes(CRDsName) \/ Deletes(KlusterletName))) =>
              /\ Issued(Op("NoManagedClusterAddons", ClusterName, "true"))
              /\ last.post.addons = "none"

C6_Witness ==
    /\ Teardown /\ Reachable
    /\ Names(last.pre.store) = {CRDsName, KlusterletName}
    /\ last.post.addons = "deleting"
    /\ last.decision = "WaitForAddons"
    /\ last.requeueAfter = 10

----------------------------------------------------------------------------
(* C7 *)

\* C7: on an available cluster with no addon left and only klusterlet works
\* in the namespace, an invocation without a failing call that finds the
\* klusterlet work deletes that work and no other: the crds work is neither
\* deleted nor changed in that invocation.
C7_InstallBundleFirst ==
    (Teardown /\ Reachable /\ ~Failed
        /\ last.pre.addons = "none"
        /\ Names(last.pre.store) \subseteq {CRDsName, KlusterletName}
        /\ KlusterletName \in Names(last.pre.store)) =>
        /\ last.decision = "DeleteInstallBundle"
        /\ Issued(Op("Get", KlusterletName, "found"))
        /\ Deletes(KlusterletName) /\ Retired(last.post.store, KlusterletName)
        /\ ~Deletes(CRDsName) /\ Untouched(CRDsName)
        /\ last.errs = <<>> /\ last.requeueAfter = 0

C7_Witness ==
    /\ Teardown /\ Reachable /\ ~Failed
    /\ last.pre.addons = "none"
    /\ Names(last.pre.store) = {CRDsName, KlusterletName}
    /\ Names(last.post.store) = {CRDsName}
    /\ last.decision = "DeleteInstallBundle"

----------------------------------------------------------------------------
(* C8 *)

\* C8: on an available cluster with no addon left, when the crds work is the
\* only work of the namespace, an invocation without a failing call reads the
\* klusterlet work, gets NotFound, removes the crds work at once and returns
\* no error.
C8_DefinitionsBundleSelfHeals ==
    (Teardown /\ Reachable /\ ~Failed
        /\ last.pre.addons = "none"
        /\ Names(last.pre.store) = {CRDsName}) =>
        /\ last.decision = "DeleteDefinitionsBundle"
        /\ Issued(Op("Get", KlusterletName, "NotFound"))
        /\ Issued(Op("ForceDeleteManifestWork", CRDsName, "deleted"))
        /\ Names(last.post.store) = {}
        /\ last.errs = <<>> /\ last.requeueAfter = 0

C8_Witness ==
    /\ Teardown /\ Reachable /\ ~Failed
    /\ last.pre.addons = "none"
    /\ \E w \in last.pre.store : w.name = CRDsName /\ w.finalizer
    /\ Names(last.pre.store) = {CRDsName}
    /\ Names(last.post.store) = {}

----------------------------------------------------------------------------
(* C9 *)

\* the step is an invocation on the deletion path that directly follows
\* another one, and no call failed in either
RepeatedTeardown ==
    /\ Teardown /\ ~Failed
    /\ last'.path = "Teardown" /\ ~Failed'

----------------------------------------------------------------------------
(* C10 *)

CoreUntouched ==
    /\ Untouched(CRDsName) /\ Untouched(KlusterletName)
    /\ ~Deletes(CRDsName) /\ ~Deletes(KlusterletName)

\* C10: on an available cluster, a failing delete of the batch ends the
\* invocation with that error before the addon check and before any delete
\* of a klusterlet work; a failing addon check or pending-work list ends it
\* with that error and no delete of a klusterlet work; a failing read of the
\* klusterlet work ends it with that error and neither klusterlet work deleted.
C10_FailureStopsTeardown ==
    (Teardown /\ Reachable) =>
        /\ (\E i \in 1..Len(last.ops) :
                /\ last.ops[i].op = "DeleteManifestWork"
                /\ last.ops[i].name \in OtherNames
                /\ last.ops[i].res = "error") <=> last.decision = "BatchDeleteError"
        /\ last.decision = "BatchDeleteError" =>
              /\ last.worksErrs = <<FailDelete(last.ops[Len(last.ops)].name)>>
              /\ ~Called("NoManagedClusterAddons")
              /\ ~Called("NoPendingManifestWorks") /\ ~Called("Get")
              /\ CoreUntouched
        /\ Issued(Op("NoManagedClusterAddons", ClusterName, "error")) =>
              /\ last.worksErrs = <<"noAddons">>
              /\ ~Called("NoPendingManifestWorks") /\ ~Called("Get")
              /\ CoreUntouched
        /\ Issued(Op("NoPendingManifestWorks", ClusterName, "error")) =>
              /\ last.worksErrs = <<"listPending">>
              /\ ~Called("Get")
              /\ CoreUntouched
        /\ Issued(Op("Get", KlusterletName, "error")) =>
              /\ last.worksErrs = <<"get">>
              /\ CoreUntouched
        /\ last.worksErrs # <<>> =>
              /\ last.requeueAfter = 0
              /\ last.errs # <<>> /\ last.errs[Len(last.errs)] = last.worksErrs[1]

C10_Witness ==
    /\ Teardown /\ Reachable
    /\ Names(last.pre.store) = {CRDsName, KlusterletName}
    /\ last.pre.addons = "none"
    /\ last.decision = "GetError"
    /\ last.post.store = last.pre.store

----------------------------------------------------------------------------
(* C11 *)

\* the forced deletes of the invocation that failed, in the order of the calls
FailedForceDeletes ==
    LET failed == SelectSeq(last.ops, LAMBDA o : o.op = "ForceDeleteManifestWork" /\ o.res = "error")
    IN  [i \in 1..Len(failed) |-> FailDelete(failed[i].name)]

\* C11: for a deleting cluster that is unavailable, a failing forced delete
\* of one work keeps no other listed work from its own forced delete; every
\* work whose delete did not fail is gone from the store, every work whose
\* delete failed is unchanged, and deleteManifestWorks returns one error that
\* lists exactly the failed deletes, which Reconcile returns after the error
\* of a failed addon removal request, with no requeue.
C11_ForceDeleteIsBestEffort ==
    (Teardown /\ last.pre.cluster.unavailable /\ last.listed # <<>>) =>
        /\ \A i \in 1..Len(last.listed) :
              /\ last.ops[i + 1].op = "ForceDeleteManifestWork"
              /\ last.ops[i + 1].name = last.listed[i]
              /\ IF last.ops[i + 1].res = "error"
                 THEN Untouched(last.listed[i])
                 ELSE last.listed[i] \notin Names(last.post.store)
        /\ last.worksErrs = FailedForceDeletes
        /\ last.errs = (IF Issued(Op("DeleteManagedClusterAddons", ClusterName, "error"))
                        THEN <<"retire">> ELSE <<>>) \o FailedForceDeletes
        /\ last.requeueAfter = 0

\* the delete of the first of three works failed, as did that of the last,
\* and the work between them was deleted
C11_Witness ==
    /\ Teardown /\ last.pre.cluster.unavailable
    /\ Len(last.listed) >= 3
    /\ last.ops[2].res = "error"
    /\ last.ops[3].res = "deleted"
    /\ last.ops[Len(last.ops)].res = "error"
    /\ Len(last.worksErrs) = 2
    /\ last.listed[2] \notin Names(last.post.store)
    /\ last.listed[1] \in Names(last.post.store)

----------------------------------------------------------------------------
(* C12 *)

\* the returns of deleteManifestWorks
Decisions ==
    {"Done", "ForceDeleteAll", "BatchDeleteError", "NoAddonsError", "WaitForAddons",
     "NoPendingError", "WaitForOtherWork", "GetError", "DeleteDefinitionsBundle",
     "DeleteInstallBundle"}

\* C12: every invocation for a deleting cluster requests the removal of the
\* addons exactly once, as its first call and so before every delete of a
\* work, and goes on to deleteManifestWorks whether that request failed or
\* not and whether addons are left or not: on an unavailable cluster every
\* listed work gets its forced delete, on an available one every work of
\* others that is not postponed gets its delete up to the first failing one.
C12_RetireFirstWorksRegardless ==
    Teardown =>
        /\ Len(last.ops) >= 1
        /\ last.ops[1].op = "DeleteManagedClusterAddons"
        /\ last.ops[1].name = ClusterName
        /\ \A i \in 2..Len(last.ops) : last.ops[i].op # "DeleteManagedClusterAddons"
        /\ last.decision \in Decisions
        /\ (last.pre.cluster.unavailable /\ last.listed # <<>>) =>
              \A n \in Range(last.listed) : Deletes(n)
        /\ Reachable =>
              \A w \in last.pre.store :
                  (w.name \in OtherNames /\ ~Postponed(w) /\ last.decision # "BatchDeleteError")
                      => Deletes(w.name)

\* the removal request failed, the addons are all still there, and a work
\* was deleted in the same invocation
C12_Witness ==
    /\ Teardown /\ Reachable
    /\ last.ops[1] = Op("DeleteManagedClusterAddons", ClusterName, "error")
    /\ last.post.addons = "present"
    /\ Issued(Op("DeleteManifestWork", OtherWorkName, "deleted"))
    /\ OtherWorkName \notin Names(last.post.store)
    /\ last.errs = <<"retire">>

----------------------------------------------------------------------------
(* C13 *)

\* C13 as stated: for a deleting cluster with no work in its namespace an
\* invocation makes no call at all, neither a delete of a work nor the
\* addon removal request, and returns no error and no requeue.
C13_Original ==
    (Teardown /\ last.listed = <<>>) =>
        /\ last.ops = <<>>
        /\ last.errs = <<>> /\ last.requeueAfter = 0

\* C13 amended: for a deleting cluster with no work in its namespace an
\* invocation requests the removal of the addons and makes no other call:
\* deleteManifestWorks returns at once with no error, the store of works is
\* unchanged and no requeue is asked for; the invocation returns an error
\* exactly when the addon removal request failed, and the addons that were
\* present are being deleted when it did not.
C13_DoneStillRetiresAddons ==
    (Teardown /\ last.listed = <<>>) =>
        /\ last.decision = "Done"
        /\ Len(last.ops) = 1 /\ last.ops[1].op = "DeleteManagedClusterAddons"
        /\ last.post.store = last.pre.store
        /\ last.worksErrs = <<>> /\ last.requeueAfter = 0
        /\ last.errs = (IF last.ops[1].res = "error" THEN <<"retire">> ELSE <<>>)
        /\ last.ops[1].res # "error" => last.post.addons # "present"
        /\ last.ops[1].res = "error" => last.post.addons = last.pre.addons

C13_Witness ==
    /\ Teardown /\ last.listed = <<>>
    /\ last.decision = "Done"
    /\ last.pre.addons = "present" /\ last.post.addons = "deleting"
    /\ last.ops = <<Op("DeleteManagedClusterAddons", ClusterName, "ok")>>

----------------------------------------------------------------------------
(* C14 *)

Pair == last.path = "Pair"

\* the calls of deleteManifestWorks, without the addon removal request
WorkOps(r) == SubSeq(r.ops, 2, Len(r.ops))

SameOutcome ==
    /\ last.first.decision = last.second.decision
    /\ last.first.requeueAfter = last.second.requeueAfter
    /\ WorkOps(last.first) = WorkOps(last.second)
    /\ last.first.store = last.second.store

AddonsLeft(ad) == ad # "none"

\* C14 as stated: two invocations on the same works, the same availability
\* and the same deletion timestamp take the same decision and make the same
\* calls on the store of works.
C14_Original ==
    Pair => SameOutcome

\* C14 amended: two invocations without a failing call on the same works,
\* the same availability and the same deletion timestamp take the same
\* decision and make the same calls when they also agree on whether addons
\* are left and on whether the postpone period is over; the addons do not
\* matter when the cluster is unavailable or has no work, the postpone
\* period does not matter unless a work of others carries the annotation
\* on an available cluster; and on an available cluster with works two
\* invocations that differ in whether addons are left decide differently.
C14_DecisionAlsoReadsAddonsAndPostpone ==
    Pair =>
        /\ (AddonsLeft(last.addons[1]) = AddonsLeft(last.addons[2])
                /\ last.pastPostpone[1] = last.pastPostpone[2]) => SameOutcome
        /\ (cluster.unavailable \/ last.listed = <<>>) => SameOutcome
        /\ (AddonsLeft(last.addons[1]) = AddonsLeft(last.addons[2])
                /\ PostponedWorkName \notin Range(last.listed)) => SameOutcome
        /\ (~cluster.unavailable /\ last.listed # <<>>
                /\ AddonsLeft(last.addons[1]) # AddonsLeft(last.addons[2])) =>
              last.first.decision # last.second.decision

\* the same two klusterlet works of an available cluster: one invocation
\* waits for the addons, the other deletes the klusterlet work
C14_Witness ==
    /\ Pair /\ ~cluster.unavailable
    /\ Range(last.listed) = {CRDsName, KlusterletName}
    /\ last.addons = <<"deleting", "none">>
    /\ last.pastPostpone[1] = last.pastPostpone[2]
    /\ last.first.decision = "WaitForAddons"
    /\ last.second.decision = "DeleteInstallBundle"

----------------------------------------------------------------------------
(* C15 *)

Invoked == last.path # "none"

\* the works outside the namespace of ClusterName
Foreign(st) == {w \in st : w.namespace # ClusterName}

\* C15: an invocation for ClusterName leaves every work of another namespace
\* as it was and creates none there; the works it lists are exactly those
\* of its own namespace, its read of the klusterlet work answers for its own
\* namespace only, and a delete that removed a work names a work of its own
\* namespace; a work of the same name in another namespace changes nothing.
C15_ConfinedToOwnNamespace ==
    Invoked =>
        /\ Foreign(last.post.store) = Foreign(last.pre.store)
        /\ last.path \in {"Teardown", "NoImportSecret", "Apply"} =>
              /\ Range(last.listed) = Names(last.pre.store)
              /\ Len(last.listed) = Cardinality(Names(last.pre.store))
        /\ Issued(Op("Get", KlusterletName, "found")) => KlusterletName \in Names(last.pre.store)
        /\ Issued(Op("Get", KlusterletName, "NotFound")) =>
              KlusterletName \notin Names(last.pre.store)
        /\ \A i \in 1..Len(last.ops) :
              (last.ops[i].op \in DeleteOps /\ last.ops[i].res = "deleted") =>
                  last.ops[i].name \in Names(last.pre.store)
        /\ last.path = "Apply" =>
              Names(last.post.store) = Names(last.pre.store) \cup {CRDsName, KlusterletName}

\* every work of the unavailable cluster is removed by force while the works
\* of the other namespace, two of them of the names of its klusterlet works, stay
C15_Witness ==
    /\ Teardown /\ last.decision = "ForceDeleteAll" /\ ~Failed
    /\ {CRDsName, KlusterletName, OtherWorkName} \subseteq Names(last.pre.store)
    /\ Names(last.post.store) = {}
    /\ Foreign(last.post.store) = CollidingWorks \cup OtherClusterWorks

----------------------------------------------------------------------------
(* C16 *)

\* the works of the namespace of ClusterName that carry the label of the
\* klusterlet works
CoreWorks(st) ==
    {w \in st : w.namespace = ClusterName /\ <<KlusterletWorksLabel, "true">> \in w.labels}

\* C16: the store never holds two works of one namespace and name; the works
\* of the namespace of ClusterName that carry the label of the klusterlet
\* works are at most two, the crds work under the name <cluster>-crds and
\* the klusterlet work under the name <cluster>-klusterlet; an invocation
\* that applies the two works ends with exactly these two, and one that
\* finds both leaves the store as it was.
C16_OneWorkPerRole ==
    /\ \A w1 \in store, w2 \in store :
          (w1.namespace = w2.namespace /\ w1.name = w2.name) => w1 = w2
    /\ \A w \in CoreWorks(store) :
          /\ w.name \in {Sprintf(ClusterName, "crds"), Sprintf(ClusterName, "klusterlet")}
          /\ w.name = Sprintf(ClusterName, "crds") <=> w.deleteOption = "nil"
    /\ Cardinality(CoreWorks(store)) <= 2
    /\ last.path = "Apply" =>
          /\ {w.name : w \in CoreWorks(last.post.store)} = {CRDsName, KlusterletName}
          /\ Cardinality(CoreWorks(last.post.store)) = 2
          /\ {CRDsName, KlusterletName} \subseteq Names(last.pre.store) =>
                last.post.store = last.pre.store

\* an invocation applies the two works a second time
C16_Witness ==
    /\ last.path = "Apply"
    /\ {CRDsName, KlusterletName} \subseteq Names(last.pre.store)
    /\ Cardinality(CoreWorks(store)) = 2
    /\ store = last.pre.store

----------------------------------------------------------------------------
(* C17 *)

----------------------------------------------------------------------------
(* C18 *)

Built == last.path = "Build"

\* what each document of the secrets that converts converts to
ExpectedJSON ==
    ("kind: Namespace" :> "{\"kind\":\"Namespace\"}")
        @@ ("kind: Deployment" :> "{\"kind\":\"Deployment\"}")
        @@ ("kind: CRDv1" :> "{\"kind\":\"CRDv1\"}")
        @@ ("kind: CRDv1beta1" :> "{\"kind\":\"CRDv1beta1\"}")

\* the crds document of the secret that the version of the cluster selects
SelectedCRDs ==
    secret[IF cluster.kubernetes = "v1.11.0" THEN ImportSecretCRDSV1beta1YamlKey
           ELSE ImportSecretCRDSV1YamlKey]

CoreLabels == {<<KlusterletWorksLabel, "true">>}

\* C18: for any cluster name and any import secret whose documents convert,
\* the two builders give two works of different names in the namespace of
\* the cluster: <cluster>-crds, whose payload is the one converted crds
\* document that the Kubernetes version of the cluster selects, and
\* <cluster>-klusterlet, each with the label of the klusterlet works set to
\* "true" and no other label; a builder gives no work exactly when one of
\* its documents does not convert.
C18_BuildersGiveTheTwoWorks ==
    Built =>
        /\ last.crds = Panic <=> SelectedCRDs \notin DOMAIN ExpectedJSON
        /\ last.klusterlet = Panic <=> IndexOf(secret[ImportSecretImportYamlKey], "kind: [") # 0
        /\ last.crds # Panic =>
              /\ last.crds.name = cluster.name \o "-crds"
              /\ last.crds.namespace = cluster.name
              /\ last.crds.labels = CoreLabels
              /\ last.crds.manifests = <<ExpectedJSON[SelectedCRDs]>>
        /\ last.klusterlet # Panic =>
              /\ last.klusterlet.name = cluster.name \o "-klusterlet"
              /\ last.klusterlet.namespace = cluster.name
              /\ last.klusterlet.labels = CoreLabels
              /\ Len(last.klusterlet.manifests) >= 1

\* a cluster without apiextensions v1 gets the v1beta1 document
C18_Witness ==
    /\ Built /\ cluster.name = OtherClusterName /\ cluster.kubernetes = "v1.11.0"
    /\ last.crds # Panic /\ last.klusterlet # Panic
    /\ last.crds.name = "t2-crds" /\ last.klusterlet.name = "t2-klusterlet"
    /\ last.crds.manifests = <<"{\"kind\":\"CRDv1beta1\"}">>
    /\ secret[ImportSecretCRDSV1YamlKey] = "kind: ["

----------------------------------------------------------------------------
(* C19 *)

\* the propagation policy of the deletion of a work: Foreground by default
PropagationPolicy(w) == IF w.deleteOption = "nil" THEN "Foreground" ELSE w.deleteOption

\* C19: every klusterlet work that is built has the delete option Orphan
\* and every crds work that is built has no delete option, so that its
\* deletion is propagated in the foreground.
C19_OrphanOnlyOnTheKlusterletWork ==
    Built =>
        /\ last.klusterlet # Panic =>
              /\ last.klusterlet.deleteOption = "Orphan"
              /\ PropagationPolicy(last.klusterlet) = "Orphan"
        /\ last.crds # Panic =>
              /\ last.crds.deleteOption = "nil"
              /\ PropagationPolicy(last.crds) = "Foreground"

C19_Witness ==
    /\ Built
    /\ last.crds # Panic /\ last.klusterlet # Panic
    /\ last.klusterlet.deleteOption = "Orphan"
    /\ last.crds.deleteOption = "nil"

----------------------------------------------------------------------------
(* C20 *)

\* C20: when the import.yaml of the secret is the stream of N documents
\* that all convert, the payload of the klusterlet work has exactly N
\* entries and its i-th entry is the converted i-th document.
C20_PayloadFollowsTheDocuments ==
    Built =>
        \A docs \in DocSeqs :
            (secret[ImportSecretImportYamlKey] = JoinYamls(docs)
                /\ \A i \in 1..Len(docs) : docs[i] \in DOMAIN ExpectedJSON) =>
                /\ last.klusterlet # Panic
                /\ Len(last.klusterlet.manifests) = Len(docs)
                /\ \A i \in 1..Len(docs) :
                      last.klusterlet.manifests[i] = ExpectedJSON[docs[i]]

\* three documents, the first and the last of which differ
C20_Witness ==
    /\ Built
    /\ secret[ImportSecretImportYamlKey] =
            "kind: Namespace\n---\nkind: Deployment\n---\nkind: Deployment"
    /\ last.klusterlet # Panic
    /\ last.klusterlet.manifests =
            <<"{\"kind\":\"Namespace\"}", "{\"kind\":\"Deployment\"}",
              "{\"kind\":\"Deployment\"}">>

----------------------------------------------------------------------------
(* C21 *)

\* the invocation found the cluster, not being deleted, with an import
\* secret whose import.yaml holds a document that does not convert
MalformedPayload ==
    /\ Invoked /\ secret = "malformed"
    /\ last.pre.cluster.exists /\ ~last.pre.cluster.deletionTimestamp

\* C21 as stated: an invocation that finds a document of the import secret
\* that does not convert ends with an error result, not with the abnormal
\* termination of the process, and creates or changes no work.
C21_Original ==
    MalformedPayload =>
        /\ last.path = "Error" /\ last.errs # <<>>
        /\ last.post.store = last.pre.store

----------------------------------------------------------------------------
(* C22 *)

Selected == last.path = "Select"

\* the pattern prefix*suffix: the suffix starts after the end of the prefix
Glob(name, prefix, suffix) ==
    /\ Len(name) >= Len(prefix) + Len(suffix)
    /\ SubSeq(name, 1, Len(prefix)) = prefix
    /\ SubSeq(name, Len(name) - Len(suffix) + 1, Len(name)) = suffix

\* the names <cluster>-crds and <cluster>-klusterlet
CoreName(name) == name \in {cluster.name \o "-crds", cluster.name \o "-klusterlet"}

\* the three patterns of the addon works
AddonName(w) ==
    \/ Glob(w.name, w.namespace \o "-klusterlet-addon", "")
    \/ Glob(w.name, "addon-", "-deploy")
    \/ Glob(w.name, "addon-", "-pre-delete")

\* C22 as stated: a work is a klusterlet work exactly when its name is one
\* of the two names, it is kept from the batch delete as an addon work
\* exactly when its name matches one of the three patterns, and every other
\* work, those of the hosted mode names and addon-deploy included, is a work
\* of others that no selector ignores.
C22_Original ==
    Selected =>
        /\ last.ignoredByPending <=> CoreName(last.work.name)
        /\ last.ignoredByBatch <=> (CoreName(last.work.name) \/ AddonName(last.work))

\* C22 amended: a work is a klusterlet work (ignored by both selectors)
\* exactly when its name is <cluster>-crds or <cluster>-klusterlet; it is
\* kept from the batch delete without being a klusterlet work exactly when
\* its name is <cluster>-hosted-klusterlet or <cluster>-hosted-kubeconfig,
\* or starts with <namespace>-klusterlet-addon, or starts with addon- and
\* ends with -deploy or with -pre-delete, the two of which may overlap as in
\* addon-deploy and addon-pre-delete; every other work is a work of others.
C22_SelectorsByName ==
    Selected =>
        LET name == last.work.name
            c == cluster.name
            ns == last.work.namespace
        IN
        /\ last.ignoredByPending <=> name \in {c \o "-crds", c \o "-klusterlet"}
        /\ last.ignoredByBatch <=>
              \/ name \in {c \o "-crds", c \o "-klusterlet",
                            c \o "-hosted-klusterlet", c \o "-hosted-kubeconfig"}
              \/ name \in {ns \o "-klusterlet-addon", ns \o "-klusterlet-addon-foo"}
              \/ name \in {"addon-foo-deploy", "addon-foo-pre-delete",
                            "addon-deploy", "addon-pre-delete"}
        /\ last.ignoredByPending => last.ignoredByBatch

\* addon-deploy is kept from the batch delete
C22_Witness ==
    /\ Selected
    /\ last.work.name = "addon-deploy"
    /\ last.ignoredByBatch /\ ~last.ignoredByPending

----------------------------------------------------------------------------
(* C23 *)

\* no work was created, changed or removed
NoWorkWritten == last.post.store = last.pre.store

\* C23: an invocation that does not find the cluster writes nothing and
\* returns no error and no requeue; one that finds a cluster that is not
\* being deleted without its import secret writes no work and returns no
\* error and no requeue (the finalizer of the cluster is all it sets); an
\* invocation in which the read of the cluster, the list of the works, the
\* assertion of the finalizer, the read or the validation of the import
\* secret or the apply fails returns exactly that error, with no requeue,
\* and with no work written when the failing call comes before the apply.
C23_AbsenceIsBenignErrorsAreReturned ==
    /\ [](last.path = "NotFound" =>
            /\ ~last.pre.cluster.exists
            /\ NoWorkWritten /\ last.post.cluster = last.pre.cluster
            /\ last.errs = <<>> /\ last.requeueAfter = 0)
    /\ [](last.path = "NoImportSecret" =>
            /\ secret = "absent" /\ ~last.pre.cluster.deletionTimestamp
            /\ NoWorkWritten
            /\ last.post.cluster =
                    [last.pre.cluster EXCEPT !.finalizer = (last.listed # <<>>)]
            /\ last.errs = <<>> /\ last.requeueAfter = 0)
    /\ [](last.path = "Error" =>
            /\ Len(last.errs) = 1 /\ last.errs[1] \in ReadFaults
            /\ last.errs[1] # "apply" => NoWorkWritten
            /\ last.requeueAfter = 0)
    /\ [][\A f \in ReadFaults :
            ReconcileFails(f) => (last'.path = "Error" /\ last'.errs = <<f>>)]_vars

\* the import secret is missing while works are in the namespace
C23_Witness ==
    /\ last.path = "NoImportSecret"
    /\ last.listed # <<>>
    /\ ~last.pre.cluster.finalizer /\ last.post.cluster.finalizer
    /\ NoWorkWritten /\ last.errs = <<>>

----------------------------------------------------------------------------
(* C24 *)

\* the number of times the finalizer is in the list
Count(finalizers, finalizer) ==
    Cardinality({i \in 1..Len(finalizers) : finalizers[i] = finalizer})

\* C24: AddManagedClusterFinalizer on a cluster that carries the finalizer
\* leaves its finalizers as they are and does not set modified; on a cluster
\* that does not carry it, the finalizers are the ones before followed by
\* that finalizer, and modified is set; no finalizer is ever in the list
\* twice, and adding the same finalizer again changes nothing.
C24_AddFinalizerIsIdempotent ==
    /\ [](last.path = "AddFinalizer" =>
            /\ Count(cluster.finalizers, last.finalizer) = 1
            /\ \A f \in FinalizerNames : Count(cluster.finalizers, f) <= 1
            /\ IF Count(last.before, last.finalizer) > 0
               THEN cluster.finalizers = last.before /\ ~last.modified
               ELSE /\ Len(cluster.finalizers) = Len(last.before) + 1
                    /\ SubSeq(cluster.finalizers, 1, Len(last.before)) = last.before
                    /\ cluster.finalizers[Len(cluster.finalizers)] = last.finalizer
                    /\ last.modified)
    /\ [][\A f \in FinalizerNames :
            (last.path = "AddFinalizer" /\ last.finalizer = f /\ AddFinalizer(f)) =>
                cluster' = cluster]_vars

\* a finalizer is added to a cluster that carries it next to another one
C24_Witness ==
    /\ last.path = "AddFinalizer"
    /\ last.finalizer = "test"
    /\ last.before = <<"test1", "test">>
    /\ cluster.finalizers = <<"test1", "test">>
    /\ ~last.modified

----------------------------------------------------------------------------
(* C25 *)

\* the position of the finalizer in the list
Position(finalizers, finalizer) == CHOOSE i \in 1..Len(finalizers) : finalizers[i] = finalizer

\* C25: RemoveManagedClusterFinalizer returns no error; on a cluster that
\* carries the finalizer the stored finalizers are the ones before without
\* that finalizer, every other one kept, in the order they had; on a cluster
\* that does not carry it the stored finalizers are as before and nothing
\* is patched.
C25_RemoveFinalizerKeepsTheOthers ==
    last.path = "RemoveFinalizer" =>
        /\ ~last.err
        /\ Count(cluster.finalizers, last.finalizer) = 0
        /\ \A f \in FinalizerNames \ {last.finalizer} :
              Count(cluster.finalizers, f) = Count(last.before, f)
        /\ \A i \in 1..Len(cluster.finalizers), j \in 1..Len(cluster.finalizers) :
              i < j => Position(last.before, cluster.finalizers[i])
                          < Position(last.before, cluster.finalizers[j])
        /\ Len(cluster.finalizers) = Len(last.before) - Count(last.before, last.finalizer)
        /\ last.modified <=> Count(last.before, last.finalizer) > 0
        /\ Count(last.before, last.finalizer) = 0 => cluster.finalizers = last.before

\* the finalizer in the middle of three is removed
C25_Witness ==
    /\ last.path = "RemoveFinalizer"
    /\ last.finalizer = "test"
    /\ last.before = <<"test1", "test", "test2">>
    /\ cluster.finalizers = <<"test1", "test2">>

----------------------------------------------------------------------------
(* C26 *)

\* the works of the namespace that are neither of the two klusterlet works
NonCore(st) == Names(st) \ {KlusterletName, CRDsName}

\* an invocation on an available deleting cluster with works and without
\* addons, none of whose calls failed, that leaves a work of others behind
StuckCase ==
    /\ Teardown /\ Reachable
    /\ NoManagedClusterAddons(last.post.addons)
    /\ ~Failed
    /\ NonCore(last.post.store) # {}

\* nothing returned, nothing requeued, the two klusterlet works as they were
StuckOutcome ==
    /\ last.errs = <<>>
    /\ last.requeueAfter = 0
    /\ Untouched(KlusterletName) /\ Untouched(CRDsName)
    /\ ~Deletes(KlusterletName) /\ ~Deletes(CRDsName)

\* C26: an invocation on an available deleting cluster without addons that
\* leaves, after its batch delete, a work other than the crds work and the
\* klusterlet work in the namespace returns no error and no requeue and
\* deletes neither of these two works; and however often the invocation is
\* repeated, the two works stay as they are for as long as such a work is
\* left.
C26_WaitsForTheWorksOfOthers ==
    /\ [](StuckCase => StuckOutcome)
    /\ [][(StuckCase /\ StuckCase') =>
            /\ WorkOf(store', KlusterletName) = WorkOf(store, KlusterletName)
            /\ WorkOf(store', CRDsName) = WorkOf(store, CRDsName)]_vars

\* the wait, with both klusterlet works in the store and an addon work left
C26_Witness ==
    /\ StuckCase
    /\ {KlusterletName, CRDsName} \subseteq Names(last.post.store)
    /\ \E w \in last.post.store : AddonName(w)
    /\ last.pre.store # last.post.store

----------------------------------------------------------------------------
(* C27 *)

\* an available deleting cluster without addons whose namespace holds the
\* two klusterlet works and nothing else
OnlyCoreLeft ==
    /\ cluster.exists /\ cluster.deletionTimestamp /\ ~cluster.unavailable
    /\ NoManagedClusterAddons(addons)
    /\ Names(store) = {KlusterletName, CRDsName}

\* C27: when the calls succeed, every requested delete takes effect and the
\* reconciler keeps being triggered, an available deleting cluster without
\* addons whose namespace holds only the two klusterlet works eventually has
\* no work left; the crds work goes in a later invocation than the
\* klusterlet work: no step removes both, and a step that changes the crds
\* work starts without the klusterlet work in the store.
C27_TeardownCompletes ==
    /\ OnlyCoreLeft ~> (Names(store) = {})
    /\ [][WorkOf(store', CRDsName) # WorkOf(store, CRDsName) /\ cluster.deletionTimestamp
            => KlusterletName \notin Names(store)]_vars

\* the last step of the deletion: the crds work was the only work left and
\* the invocation deleted it
C27_Witness ==
    /\ Teardown
    /\ Names(last.pre.store) = {CRDsName}
    /\ Names(store) = {}
    /\ last.decision = "DeleteDefinitionsBundle"

----------------------------------------------------------------------------
(* C28 *)

CoreNames == {KlusterletName, CRDsName}

\* the work is in the store as it was, or as it was and marked deleting
KeptOrDeleting(w, st) ==
    \E v \in st : w = v \/ w = [v EXCEPT !.deleting = TRUE]

\* C28: no invocation on a cluster that is being deleted creates or updates
\* the klusterlet work or the crds work, whether or not the import secret
\* exists: it never takes the apply path, and each of the two works it
\* leaves in the store was there before, as it is or not yet marked deleting.
C28_NoApplyOnceDeleting ==
    [][(cluster.exists /\ cluster.deletionTimestamp /\ last'.path # "none") =>
          /\ last'.path \in {"Teardown", "Error"}
          /\ \A w \in store' : (w.namespace = ClusterName /\ w.name \in CoreNames)
                                   => KeptOrDeleting(w, store)]_vars

\* an invocation on a deleting cluster with an import secret, after the
\* deletion has removed both klusterlet works
C28_Witness ==
    /\ Teardown
    /\ secret = "present"
    /\ last.pre.cluster.deletionTimestamp
    /\ Names(last.pre.store) \cap CoreNames = {}
    /\ Names(store) \cap CoreNames = {}
    /\ cluster.exists

----------------------------------------------------------------------------
(* C29 *)

\* the addon removal request of the invocation failed
RetireFailed == Issued(Op("DeleteManagedClusterAddons", ClusterName, "error"))

\* C29: on the deletion path the error of the addon removal request does not
\* keep deleteManifestWorks from running in the same invocation: with works
\* listed it makes its calls after the failed request, its requeue result is
\* the one returned (ten seconds exactly when it waits for the addons), and
\* the error returned lists the error of the request followed by the errors
\* of deleteManifestWorks; it is nil exactly when neither failed.
C29_RetireErrorDoesNotStopTeardown ==
    Teardown =>
        /\ last.ops[1].op = "DeleteManagedClusterAddons"
        /\ last.decision # "none"
        /\ last.listed # <<>> => Len(last.ops) > 1
        /\ last.requeueAfter =
              (IF last.decision = "WaitForAddons" THEN RequeueAfterSeconds ELSE 0)
        /\ last.errs = (IF RetireFailed THEN <<"retire">> ELSE <<>>) \o last.worksErrs
        /\ last.errs = <<>> <=> (~RetireFailed /\ last.worksErrs = <<>>)
        /\ \A i \in 2..Len(last.ops) :
              last.ops[i].res = "error" => last.worksErrs # <<>>

\* the request fails, and the same invocation deletes a work and fails to
\* delete another: both errors are returned
C29_Witness ==
    /\ Teardown /\ RetireFailed
    /\ Len(last.errs) = 2
    /\ last.errs[1] = "retire"
    /\ Names(last.post.store) # Names(last.pre.store)

\* the request fails and deleteManifestWorks asks for the requeue
C29_WitnessRequeue ==
    /\ Teardown /\ RetireFailed
    /\ last.requeueAfter = RequeueAfterSeconds
    /\ last.errs = <<"retire">>

----------------------------------------------------------------------------
(* C30 *)

\* the versions of KubernetesVersions that are older than 1.16
BeforeV1 == {"v1.11.0"}

\* C30: the crds work is built from the v1 crds document of the import
\* secret, unless the cluster reports a version and that version is older
\* than the v1 API of the definitions, in which case it is built from the
\* v1beta1 document; a cluster that reports no version gets the v1
\* document. The other document is not read: only the chosen one decides
\* between the work and the panic.
C30_CRDsVersionFollowsTheCluster ==
    Built =>
        LET crdYaml == IF cluster.kubernetes # "" /\ cluster.kubernetes \in BeforeV1
                       THEN secret[ImportSecretCRDSV1beta1YamlKey]
                       ELSE secret[ImportSecretCRDSV1YamlKey]
        IN  /\ cluster.kubernetes = "" => crdYaml = secret[ImportSecretCRDSV1YamlKey]
            /\ IF crdYaml \in DOMAIN ExpectedJSON
               THEN /\ last.crds # Panic
                    /\ last.crds.manifests = <<ExpectedJSON[crdYaml]>>
               ELSE last.crds = Panic

\* a cluster without a version gets v1 although the v1beta1 document of its
\* secret does not convert
C30_Witness ==
    /\ Built
    /\ cluster.kubernetes = ""
    /\ secret[ImportSecretCRDSV1beta1YamlKey] = "kind: ["
    /\ last.crds # Panic
    /\ last.crds.manifests = <<"{\"kind\":\"CRDv1\"}">>

\* a cluster of version 1.11 gets v1beta1
C30_WitnessV1beta1 ==
    /\ Built
    /\ cluster.kubernetes = "v1.11.0"
    /\ last.crds # Panic
    /\ last.crds.manifests = <<"{\"kind\":\"CRDv1beta1\"}">>

----------------------------------------------------------------------------
(* C31 *)

\* the invocation came to the call of AssertManifestWorkFinalizer and the
\* call did not fail
Asserted == last.path \in {"Teardown", "NoImportSecret", "Panic", "Apply"}

\* the finalizer after the invocation is the one the listed count asks for
FinalizerFollowsListing ==
    Asserted => (last.post.cluster.finalizer <=> last.listed # <<>>)

\* the finalizer leaves a deleting cluster only in an invocation that listed
\* no work
FinalizerLeavesOnEmptyListing ==
    [][(cluster.exists /\ cluster.deletionTimestamp /\ cluster.finalizer
            /\ ~cluster'.finalizer)
          => (last'.path = "Teardown" /\ last'.listed = <<>>)]_vars

\* the invocation that deletes the last work leaves the finalizer and the
\* cluster
LastDeleteKeepsFinalizer ==
    (Teardown /\ Names(last.pre.store) # {} /\ Names(last.post.store) = {}) =>
        (last.post.cluster.exists /\ last.post.cluster.finalizer)

\* the cluster is not gone while a work that the controller applied to its
\* namespace is in the store
NoWorkOutlivesTheCluster == ~cluster.exists => Names(store) \cap CoreNames = {}

\* C31 as stated: the finalizer follows the count of works listed at the
\* start of the invocation, it leaves a deleting cluster only in an
\* invocation that listed no work, the invocation that deletes the last work
\* keeps it, and so the cluster is never gone while a klusterlet work or a
\* crds work of its namespace exists.
C31_Original ==
    /\ [](FinalizerFollowsListing /\ LastDeleteKeepsFinalizer)
    /\ FinalizerLeavesOnEmptyListing
    /\ []NoWorkOutlivesTheCluster

----------------------------------------------------------------------------
(* C32 *)

\* C32: an invocation for a cluster whose klusterlet deploy mode is not
\* Default returns after the read of the cluster: the finalizer and every
\* other field of the cluster, the works, the addons and the import secret
\* are what they were, whether the cluster is being deleted or not,
\* available or not, with works or without.
C32_OtherModesAreLeftAlone ==
    [][(cluster.exists /\ DetermineKlusterletMode(cluster) # KlusterletDeployModeDefault
            /\ last'.path # "none")
          => /\ last'.path = "NotDefaultMode"
             /\ last'.ops = <<>> /\ last'.listed = <<>>
             /\ UNCHANGED <<store, cluster, addons, secret>>]_vars

\* an invocation for a hosted cluster that is being deleted, is unavailable,
\* has works and an import secret and carries no finalizer
C32_Witness ==
    /\ last.path = "NotDefaultMode"
    /\ cluster.mode = KlusterletDeployModeHosted
    /\ cluster.deletionTimestamp /\ cluster.unavailable /\ cluster.exists
    /\ Names(store) # {}
    /\ secret = "present"

\* an invocation for a hosted cluster that has works and no finalizer, and
\* is not being deleted
C32_WitnessNoFinalizer ==
    /\ last.path = "NotDefaultMode"
    /\ ~cluster.deletionTimestamp /\ ~cluster.finalizer
    /\ Names(store) # {}
    /\ secret = "present"

----------------------------------------------------------------------------
(* C33 *)

\* the last step was an invocation of ReconcileLocalCluster
Local == last.path = "Local"

\* the works with the label of the klusterlet works in the namespace
Labelled(st) ==
    {w \in st : w.namespace = ClusterName /\ <<KlusterletWorksLabel, "true">> \in w.labels}

\* the invocation called ImportManagedClusterFromSecret
Attempted ==
    \E i \in 1..Len(last.ops) : last.ops[i].op = "ImportManagedClusterFromSecret"

StatusWritten ==
    \E i \in 1..Len(last.ops) : last.ops[i].op = "UpdateManagedClusterStatus"

\* C33: whatever the reconciler of the works and the others have done in
\* between, an invocation of ReconcileLocalCluster calls the import only
\* when the namespace of the cluster held exactly two works with the label of
\* the klusterlet works; an invocation that comes to the listing and finds
\* fewer or more returns no error, imports nothing, writes no condition and
\* leaves the cluster as it was.
C33_ImportOnlyWithTwoLabelledWorks ==
    Local =>
        /\ Attempted => Cardinality(Labelled(last.pre.store)) = 2
        /\ last.imported => Attempted
        /\ last.outcome = "Waiting" =>
              /\ Cardinality(Labelled(last.pre.store)) # 2
              /\ last.errs = <<>>
              /\ ~Attempted /\ ~StatusWritten /\ ~last.imported
              /\ last.post.cluster = last.pre.cluster
        /\ (/\ last.pre.cluster.exists
            /\ EqualFold(last.pre.cluster.selfManaged, "true")
            /\ ~last.pre.cluster.autoImportSecret
            /\ secret # "absent"
            /\ last.errs = <<>>
            /\ Cardinality(Labelled(last.pre.store)) # 2) => last.outcome = "Waiting"

\* the reconciler of the works has applied the two works, a third labelled
\* work is there as well, and the invocation waits
C33_Witness ==
    /\ Local
    /\ last.outcome = "Waiting"
    /\ Cardinality(Labelled(last.pre.store)) = 3

\* the import after the reconciler of the works has applied the two works
C33_WitnessImport ==
    /\ Local
    /\ last.imported
    /\ Names(last.pre.store) = {KlusterletName, CRDsName}

----------------------------------------------------------------------------
(* C34 *)

\* C34 as stated: no invocation of ReconcileLocalCluster for a cluster that
\* is being deleted calls the import or applies the import secret to the
\* cluster, also not while the deletion waits with both klusterlet works in
\* the store.
C34_Original ==
    (Local /\ last.pre.cluster.deletionTimestamp) => (~Attempted /\ ~last.imported)

\* what the code does: the cluster is being deleted, the deletion waits for
\* the addons with both klusterlet works in the store, and the invocation
\* imports the cluster and reports the import as succeeded
C34_ImportedWhileDeleting ==
    /\ Local /\ last.imported
    /\ last.pre.cluster.deletionTimestamp
    /\ last.pre.addons # "none"
    /\ Names(last.pre.store) = {KlusterletName, CRDsName}
    /\ ConditionImported \in cluster.conditions

----------------------------------------------------------------------------
(* C35 *)

ImportFailed == Issued(Op("ImportManagedClusterFromSecret", ClusterName, "error"))

StatusUpdateFailed == Issued(Op("UpdateManagedClusterStatus", ClusterName, "error"))

\* the conditions of type ManagedClusterImportSucceeded of the cluster
ImportConditions(cl) == {c \in cl.conditions : c.type = "ManagedClusterImportSucceeded"}

\* C35: an invocation of ReconcileLocalCluster that calls the import calls
\* UpdateManagedClusterStatus after it, whether the import failed or not;
\* when the update succeeds the cluster has one condition
\* ManagedClusterImportSucceeded, True with reason ManagedClusterImported
\* after an import that succeeded and False with reason
\* ManagedClusterNotImported after one that failed; when the update fails the
\* conditions are as before; the error returned lists the error of the
\* import and then the error of the update, and is nil when neither failed.
C35_ConditionFollowsTheImport ==
    (Local /\ Attempted) =>
        /\ Len(last.ops) = 2
        /\ last.ops[1].op = "ImportManagedClusterFromSecret"
        /\ last.ops[2].op = "UpdateManagedClusterStatus"
        /\ last.imported <=> ~ImportFailed
        /\ last.errs = (IF ImportFailed THEN <<"import">> ELSE <<>>)
                           \o (IF StatusUpdateFailed THEN <<"updateStatus">> ELSE <<>>)
        /\ IF StatusUpdateFailed
           THEN last.post.cluster.conditions = last.pre.cluster.conditions
           ELSE /\ Cardinality(ImportConditions(last.post.cluster)) = 1
                /\ \A c \in ImportConditions(last.post.cluster) :
                      IF ImportFailed
                      THEN c.status = "False" /\ c.reason = "ManagedClusterNotImported"
                      ELSE c.status = "True" /\ c.reason = "ManagedClusterImported"

\* the import fails after an earlier one succeeded: the condition goes from
\* True to False
C35_Witness ==
    /\ Local /\ Attempted
    /\ ImportFailed /\ ~StatusUpdateFailed
    /\ ConditionImported \in last.pre.cluster.conditions
    /\ cluster.conditions = {ConditionNotImported}

\* the import and the update both fail: both errors are returned
C35_WitnessBothFail ==
    /\ Local
    /\ last.errs = <<"import", "updateStatus">>

====
